---------------------------- MODULE Spec2Model ----------------------------
(***************************************************************************)
(* Model of the Demarches-Simplifiees -> Grist synchroniser.               *)
(*                                                                         *)
(*  Part A  column-id normalisers (grist_processor_working_all.py and      *)
(*          repetable_processor.py), as operators on character sequences.  *)
(*  Part B  schema column building, the dossier flattener and the          *)
(*          repeatable-row extraction, as operators on field trees.        *)
(*  Part C  the Grist document (tables, columns, rows) and the             *)
(*          reconciliation handlers that write to it.                      *)
(*                                                                         *)
(* A text is a sequence of one-character tokens: <<"n","o","m">>.          *)
(***************************************************************************)
EXTENDS Integers, Sequences, FiniteSets, TLC

VARIABLES
    \* ---- Part A: normaliser runs
    label,        \* the label under normalisation
    colId,        \* normalize_column_name(label)
    colId2,       \* normalize_column_name(colId)
    schemaIds,    \* table -> column id computed at schema-discovery time
    writeIds,     \* table -> column id computed at record-write time
    npc,          \* position of the normaliser run
    \* ---- Part B: one case through the column builder and the flattener
    demarche_schema,   \* the descriptor tree of the form
    dossier_data,      \* the raw case record
    column_types,      \* create_columns_from_schema(demarche_schema)[0]
    problematic_ids,   \* create_columns_from_schema(demarche_schema)[1]
    flat_data,         \* dossier_to_flat_data(dossier_data, ...)
    rep_records,       \* records built by process_repetables_batch
    fpc,               \* position of the flattening run
    \* ---- Part C: sync runs against the backend document
    grist_tables,      \* backend: the tables that exist
    grist_columns,     \* backend: table -> its columns, in creation order
    grist_rows,        \* backend: table -> its rows, each [id, fields]
    platform,          \* the platform: the schema of the form and its cases
    batch_records,     \* dossier_records, champ_records, annotation_records
    columns_cache,     \* ColumnCache.columns_cache: table -> column ids
    run,               \* number of the sync run
    gpc,               \* position of the sync run
    history,           \* the latest handler: the backend it started from,
                       \* what it was given and the calls it issued
    failures,          \* number of backend calls that failed so far
    first_rows,        \* the rows as the first run left them
    \* ---- Part D: type inference
    descriptor,        \* a champ descriptor: its type and its __typename
    schema_type,       \* what determine_column_type answered for it
    detected_type,     \* what the detection on an instance answered
    tpc,               \* position of the inference
    \* ---- Part E: the retrieval of the cases of a form under filters
    api_filters,       \* the filters handed to the run
    environ,           \* the filters found in the environment variables
    demarche_dossiers, \* the cases the platform lists for the form
    server_filters,    \* the variables of the listing query beyond the form
    filtered_dossiers, \* the cases the run keeps
    fetched,           \* the numbers of the cases the run has fetched
    qpc,               \* position of the retrieval
    \* ---- Part F: one run of process_demarche_for_grist_optimized
    run_options,       \* parallel, batch_size
    schema_method_successful,
    successful_dossiers,
    failed_dossiers,
    batch_idx,         \* index of the batch in progress
    batch_dossiers_dict, \* the cases fetched for the batch, in order
    workers,           \* fetch_dossiers_in_parallel: the state of each fetch
    run_result,        \* what the run returned
    run_trace,         \* what the run did so far
    rpc,               \* position of the run
    \* ---- Part H: the WKT text of a geo area
    geometry,          \* geo_area["geometry"]: its type and coordinates
    geo_wkt,           \* geo_data["geo_wkt"] once extract_geo_data has run
    wpc,               \* position of the extraction
    \* ---- Part I: the column sets detected on several sampled cases
    sample_dossiers,   \* the sampled cases
    detected_columns,  \* detect_column_types_from_multiple_dossiers(sample_dossiers)
    mpc,               \* position of the detection
    \* ---- Part K: the schema cache of OptimizedMultiDemarcheManager
    schema_cache,      \* self.schema_cache: str(demarche) -> schema, timestamp
    current_time,      \* time.time()
    form_schemas,      \* the platform: demarche -> the schema it publishes
    last_call,         \* the latest get_schema_optimized: what it was given,
                       \* what it found and what it answered
    \* ---- Part M: two runs reconciling the same table
    upserts            \* the state of upsert_multiple_dossiers_in_grist in each run

normVars == <<label, colId, colId2, schemaIds, writeIds, npc>>

flatVars == <<demarche_schema, dossier_data, column_types, problematic_ids,
              flat_data, rep_records, fpc>>

gristVars == <<grist_tables, grist_columns, grist_rows, platform,
               batch_records, columns_cache, run, gpc, history, failures,
               first_rows>>

typeVars == <<descriptor, schema_type, detected_type, tpc>>

filterVars == <<api_filters, environ, demarche_dossiers, server_filters,
                filtered_dossiers, fetched, qpc>>

runVars == <<run_options, schema_method_successful, successful_dossiers,
             failed_dossiers, batch_idx, batch_dossiers_dict, workers,
             run_result, run_trace, rpc>>

wktVars == <<geometry, geo_wkt, wpc>>

mergeVars == <<sample_dossiers, detected_columns, mpc>>

cacheVars == <<schema_cache, current_time, form_schemas, last_call>>

raceVars == <<upserts>>

lastVars == <<wktVars, mergeVars, cacheVars, raceVars>>

laterVars == <<typeVars, filterVars, runVars, lastVars>>

vars == <<normVars, flatVars, gristVars, laterVars>>

NULL == "None"

(***************************************************************************)
(* Part A.  Characters and texts.                                          *)
(***************************************************************************)
LowerLetters ==
    {"a","b","c","d","e","f","g","h","i","j","k","l","m",
     "n","o","p","q","r","s","t","u","v","w","x","y","z"}

UpperSeq ==
    <<"A","B","C","D","E","F","G","H","I","J","K","L","M",
      "N","O","P","Q","R","S","T","U","V","W","X","Y","Z">>

LowerSeq ==
    <<"a","b","c","d","e","f","g","h","i","j","k","l","m",
      "n","o","p","q","r","s","t","u","v","w","x","y","z">>

UpperLetters == {UpperSeq[i] : i \in 1..26}

Digits == {"0","1","2","3","4","5","6","7","8","9"}

\* "e_acute" stands for the single character U+00E9.
AccentedLetters == {"e_acute"}

Spaces == {" "}

\* str.lower() on one character.
LowerChar(c) ==
    IF c \in UpperLetters
    THEN LowerSeq[CHOOSE i \in 1..26 : UpperSeq[i] = c]
    ELSE c

\* unicodedata.normalize('NFKD', c) with the combining marks dropped.
StripAccentChar(c) == IF c = "e_acute" THEN "e" ELSE c

\* str.lower() and the accent removal on a text.
LowerText(s) == [i \in 1..Len(s) |-> LowerChar(s[i])]

StripAccents(s) == [i \in 1..Len(s) |-> StripAccentChar(s[i])]

\* str.isalpha() on one character.
IsAlpha(c) == c \in LowerLetters \cup UpperLetters \cup AccentedLetters

\* the regular-expression class \w
IsWord(c) == IsAlpha(c) \/ c \in Digits \/ c = "_"

\* the regular-expression class [a-z0-9_]
IsIdChar(c) == c \in LowerLetters \cup Digits \cup {"_"}

\* s.strip(): the characters of cs removed at both ends.
RECURSIVE LStrip(_, _)
LStrip(s, cs) ==
    IF s # <<>> /\ Head(s) \in cs THEN LStrip(Tail(s), cs) ELSE s

RECURSIVE RStrip(_, _)
RStrip(s, cs) ==
    IF s # <<>> /\ s[Len(s)] \in cs THEN RStrip(SubSeq(s, 1, Len(s) - 1), cs) ELSE s

Strip(s, cs) == RStrip(LStrip(s, cs), cs)

\* re.sub(r'X+', r, s) for a character class cs and a one-character
\* replacement r: every maximal run of cs characters becomes r.
RECURSIVE SubRuns(_, _, _)
SubRuns(s, cs, r) ==
    IF s = <<>> THEN <<>>
    ELSE IF Head(s) \in cs
         THEN <<r>> \o SubRuns(LStrip(s, cs), cs, r)
         ELSE <<Head(s)>> \o SubRuns(Tail(s), cs, r)

Str_column == <<"c","o","l","u","m","n">>
Str_col_ == <<"c","o","l","_">>
Str_c_ == <<"c","_">>
Str_annotation_ == <<"a","n","n","o","t","a","t","i","o","n","_">>

HexChars == <<"0","1","2","3","4","5","6","7","8","9","a","b","c","d","e","f">>

CodeAlphabet ==
    <<"a","b","c","d","e","f","g","h","i","j","k","l","m",
      "n","o","p","q","r","s","t","u","v","w","x","y","z",
      "0","1","2","3","4","5","6","7","8","9","_">>

CharCode(c) == CHOOSE i \in 1..Len(CodeAlphabet) : CodeAlphabet[i] = c

\* hashlib.md5(name.encode()).hexdigest()[:6].  The digest is modelled by a
\* positional checksum of the text: a function of the content alone whose
\* value is six characters of 0-9a-f.
RECURSIVE CheckSum(_, _)
CheckSum(s, i) ==
    IF i > Len(s) THEN 7
    ELSE (CharCode(s[i]) * (i + 2) + 31 * CheckSum(s, i + 1)) % 16777216

HashPart(name) ==
    LET h == CheckSum(name, 1)
    IN  [k \in 1..6 |-> HexChars[((h \div (16 ^ (k - 1))) % 16) + 1]]

DefaultMaxLength == 50
RpDefaultMaxLength == 40

\* grist_processor_working_all.normalize_column_name(name, max_length)
NormalizeColumnName(name, max_length) ==
    IF name = <<>> THEN Str_column
    ELSE
    LET stripped == Strip(name, Spaces)
        spaced == SubRuns(stripped, Spaces, " ")
        unaccented == StripAccents(spaced)
        lowered == LowerText(unaccented)
        replaced == [i \in 1..Len(lowered) |->
                        IF IsIdChar(lowered[i]) THEN lowered[i] ELSE "_"]
        collapsed == SubRuns(replaced, {"_"}, "_")
        trimmed == Strip(collapsed, {"_"})
        prefixed == IF trimmed = <<>> \/ ~IsAlpha(trimmed[1])
                    THEN Str_col_ \o trimmed ELSE trimmed
    IN  IF Len(prefixed) > max_length
        THEN SubSeq(prefixed, 1, max_length - 7) \o <<"_">> \o HashPart(prefixed)
        ELSE prefixed

RAISED == <<"IndexError">>

\* repetable_processor.normalize_column_name(name, max_length); RAISED when
\* name[0] is read on an empty text.
RpNormalizeColumnName(name, max_length) ==
    IF name = <<>> THEN Str_column
    ELSE
    LET unaccented == StripAccents(name)
        cleaned == SelectSeq(unaccented, LAMBDA c : IsWord(c) \/ c \in Spaces)
        joined == SubRuns(cleaned, Spaces, "_")
        prefixed == IF ~IsAlpha(joined[1]) THEN Str_c_ \o joined ELSE joined
        cut == IF Len(prefixed) > max_length
               THEN SubSeq(prefixed, 1, max_length) ELSE prefixed
    IN  IF joined = <<>> THEN RAISED ELSE LowerText(cut)

(***************************************************************************)
(* The labels of the normaliser runs: an optional "annotation_" prefix, a  *)
(* run of "a", at most one character of MidChars, a run of "b".            *)
(***************************************************************************)
MaxPrefix == 43
MaxSuffix == 8

MidChars == {"A", "e_acute", "1", "_", " ", "'"}

Rep(c, n) == [i \in 1..n |-> c]

MidTexts == {<<>>} \cup {<<c>> : c \in MidChars}

Labels ==
    { pre \o Rep("a", n) \o mid \o Rep("b", m) :
        pre \in {<<>>, Str_annotation_}, n \in 0..MaxPrefix,
        mid \in MidTexts, m \in 0..MaxSuffix }

StartsWith(s, p) == Len(s) >= Len(p) /\ SubSeq(s, 1, Len(p)) = p

Tables == {"champs", "annotations", "repetable_rows"}

\* schema_utils.create_columns_from_schema: the column id a descriptor label
\* gets in each table's column set.
SchemaColumnId(table, lbl) ==
    CASE table = "champs" -> NormalizeColumnName(lbl, DefaultMaxLength)
      [] table = "annotations" ->
            IF StartsWith(lbl, Str_annotation_)
            THEN NormalizeColumnName(SubSeq(lbl, 12, Len(lbl)), DefaultMaxLength)
            ELSE NormalizeColumnName(lbl, DefaultMaxLength)
      [] table = "repetable_rows" -> NormalizeColumnName(lbl, DefaultMaxLength)

\* queries_extract.dossier_to_flat_data: the label of an annotation entry.
FlatAnnotationLabel(lbl) == Str_annotation_ \o lbl

\* The key under which a field's value is put in the record written to each
\* table: process_demarche_for_grist_optimized for champs and annotations,
\* repetable_processor.process_repetables_batch for repeatable rows.
WriteColumnId(table, lbl) ==
    CASE table = "champs" -> NormalizeColumnName(lbl, DefaultMaxLength)
      [] table = "annotations" ->
            LET original_label == FlatAnnotationLabel(lbl)
            IN  NormalizeColumnName(SubSeq(original_label, 12, Len(original_label)),
                                    DefaultMaxLength)
      [] table = "repetable_rows" -> RpNormalizeColumnName(lbl, RpDefaultMaxLength)

\* The variables of Part B while another part runs.
FlatIdle ==
    /\ demarche_schema = NULL
    /\ dossier_data = NULL
    /\ column_types = NULL
    /\ problematic_ids = NULL
    /\ flat_data = NULL
    /\ rep_records = NULL
    /\ fpc = "idle"

\* The variables of Part C while another part runs.
GristIdle ==
    /\ grist_tables = NULL
    /\ grist_columns = NULL
    /\ grist_rows = NULL
    /\ platform = NULL
    /\ batch_records = NULL
    /\ columns_cache = NULL
    /\ run = 0
    /\ gpc = "idle"
    /\ history = NULL
    /\ failures = 0
    /\ first_rows = NULL

TypeIdle ==
    /\ descriptor = NULL
    /\ schema_type = NULL
    /\ detected_type = NULL
    /\ tpc = "idle"

FilterIdle ==
    /\ api_filters = NULL
    /\ environ = NULL
    /\ demarche_dossiers = NULL
    /\ server_filters = NULL
    /\ filtered_dossiers = NULL
    /\ fetched = NULL
    /\ qpc = "idle"

RunIdle ==
    /\ run_options = NULL
    /\ schema_method_successful = FALSE
    /\ successful_dossiers = {}
    /\ failed_dossiers = {}
    /\ batch_idx = 0
    /\ batch_dossiers_dict = <<>>
    /\ workers = NULL
    /\ run_result = NULL
    /\ run_trace = NULL
    /\ rpc = "idle"

WktIdle ==
    /\ geometry = NULL
    /\ geo_wkt = NULL
    /\ wpc = "idle"

MergeIdle ==
    /\ sample_dossiers = NULL
    /\ detected_columns = NULL
    /\ mpc = "idle"

CacheIdle ==
    /\ schema_cache = NULL
    /\ current_time = 0
    /\ form_schemas = NULL
    /\ last_call = NULL

RaceIdle ==
    /\ upserts = NULL

LastIdle ==
    /\ WktIdle
    /\ MergeIdle
    /\ CacheIdle
    /\ RaceIdle

LaterIdle ==
    /\ TypeIdle
    /\ FilterIdle
    /\ RunIdle
    /\ LastIdle

NormInit ==
    /\ label \in Labels
    /\ colId = NULL
    /\ colId2 = NULL
    /\ schemaIds = NULL
    /\ writeIds = NULL
    /\ npc = "label"
    /\ FlatIdle
    /\ GristIdle
    /\ LaterIdle

NormalizeLabel ==
    /\ npc = "label"
    /\ colId' = NormalizeColumnName(label, DefaultMaxLength)
    /\ npc' = "once"
    /\ UNCHANGED <<label, colId2, schemaIds, writeIds, flatVars, gristVars, laterVars>>

NormalizeAgain ==
    /\ npc = "once"
    /\ colId2' = NormalizeColumnName(colId, DefaultMaxLength)
    /\ npc' = "twice"
    /\ UNCHANGED <<label, colId, schemaIds, writeIds, flatVars, gristVars, laterVars>>

BuildSchemaColumns ==
    /\ npc = "twice"
    /\ schemaIds' = [t \in Tables |-> SchemaColumnId(t, label)]
    /\ npc' = "schema"
    /\ UNCHANGED <<label, colId, colId2, writeIds, flatVars, gristVars, laterVars>>

BuildWriteRecords ==
    /\ npc = "schema"
    /\ writeIds' = [t \in Tables |-> WriteColumnId(t, label)]
    /\ npc' = "done"
    /\ UNCHANGED <<label, colId, colId2, schemaIds, flatVars, gristVars, laterVars>>

NormNext ==
    \/ NormalizeLabel
    \/ NormalizeAgain
    \/ BuildSchemaColumns
    \/ BuildWriteRecords

SpecNormalize == NormInit /\ [][NormNext]_vars

\* C9: normalising the normaliser's own output gives that output back, for
\* every label, truncated labels included.
C9_NormalizeIdempotent == npc = "twice" => colId2 = colId

\* C9, narrowed to labels that are truncated and given a hash suffix.
C9_TruncatedNotFixed ==
    (npc = "twice" /\ Len(label) > DefaultMaxLength) => colId2 = colId

\* C10: the schema-time column id of a label equals its write-time column
\* id in the fields, annotations and repeatable-rows tables.
C10_SchemaIdIsWriteId ==
    npc = "done" => \A t \in Tables : schemaIds[t] = writeIds[t]


(***************************************************************************)
(* Part B.  Descriptor trees, case records, the column set builder.        *)
(***************************************************************************)
\* Fixed column ids and the labels of the form, as texts.
K_dossier_number == <<"d","o","s","s","i","e","r","_","n","u","m","b","e","r">>
K_champ_id == <<"c","h","a","m","p","_","i","d">>
K_block_label == <<"b","l","o","c","k","_","l","a","b","e","l">>
K_block_row_index == <<"b","l","o","c","k","_","r","o","w","_","i","n","d","e","x">>
K_block_row_id == <<"b","l","o","c","k","_","r","o","w","_","i","d">>
K_field_name == <<"f","i","e","l","d","_","n","a","m","e">>
K_dossier_id == <<"d","o","s","s","i","e","r","_","i","d">>
K_number == <<"n","u","m","b","e","r">>
K_state == <<"s","t","a","t","e">>
K_dossier_state == <<"d","o","s","s","i","e","r","_","s","t","a","t","e">>
K_annotation_id == <<"a","n","n","o","t","a","t","i","o","n","_","i","d">>
Str_dossier_ == <<"d","o","s","s","i","e","r","_">>
Str__id == <<"_","i","d">>
Str_json == <<"j","s","o","n",":">>
K_geo_id == <<"g","e","o","_","i","d">>
K_geo_description == <<"g","e","o","_","d","e","s","c","r","i","p","t","i","o","n">>
L_Nom == <<"N","o","m">>
L_Titre == <<"T","i","t","r","e">>
L_Plan == <<"P","l","a","n">>
L_Avis == <<"A","v","i","s">>
L_Note == <<"N","o","t","e">>
L_Entete == <<"E","n","t","e","t","e">>
L_Parcelles == <<"P","a","r","c","e","l","l","e","s">>
L_Nature == <<"N","a","t","u","r","e">>
L_Zone == <<"Z","o","n","e">>
L_Section == <<"S","e","c","t","i","o","n">>
L_Intro == <<"I","n","t","r","o">>
L_Lot == <<"L","o","t">>
L_Quote == <<"'">>

None == <<"None">>

\* A descriptor of the form's schema and a field instance of a case.
Desc(id, typename, type, lbl, kids) ==
    [id |-> id, typename |-> typename, type |-> type, label |-> lbl,
     champDescriptors |-> kids]

Champ(id, typename, lbl, sv, geo, rows) ==
    [id |-> id, typename |-> typename, label |-> lbl, stringValue |-> sv,
     geoAreas |-> geo, rows |-> rows]

MaxGeo == 2
MaxRows == 2

\* str(n) for the small naturals of the model.
NumText(n) ==
    IF n < 10 THEN <<HexChars[n + 1]>>
    ELSE <<HexChars[(n \div 10) + 1], HexChars[(n % 10) + 1]>>

GeoAreas(tag, n) == [k \in 1..n |-> [id |-> <<"g", tag>> \o NumText(k),
                                       description |-> <<"parcelle ", tag>> \o NumText(k)]]

\* The fields a form can hold: descriptor d and instance c.  Header and
\* explanation instances arrive either under their own typename or as plain
\* text instances that only their descriptor id tells apart.
F_Nom ==
    [d |-> Desc(<<"d","1">>, "TextChampDescriptor", "text", L_Nom, <<>>),
     c |-> Champ(<<"d","1">>, "TextChamp", L_Nom, <<"Pont Neuf">>, <<>>, <<>>)]

F_Titre ==
    [d |-> Desc(<<"d","2">>, "HeaderSectionChampDescriptor", "header_section", L_Titre, <<>>),
     c |-> Champ(<<"d","2">>, "HeaderSectionChamp", L_Titre, None, <<>>, <<>>)]

F_Plan(g) ==
    [d |-> Desc(<<"d","3">>, "CarteChampDescriptor", "carte", L_Plan, <<>>),
     c |-> Champ(<<"d","3">>, "CarteChamp", L_Plan, None, GeoAreas("p", g), <<>>)]

F_Avis ==
    [d |-> Desc(<<"a","1">>, "TextChampDescriptor", "text", L_Avis, <<>>),
     c |-> Champ(<<"a","1">>, "TextChamp", L_Avis, <<"favorable">>, <<>>, <<>>)]

F_Note ==
    [d |-> Desc(<<"a","2">>, "ExplicationChampDescriptor", "explication", L_Note, <<>>),
     c |-> Champ(<<"a","2">>, "TextChamp", L_Note, <<"lire la notice">>, <<>>, <<>>)]

F_Entete ==
    [d |-> Desc(<<"a","3">>, "HeaderSectionChampDescriptor", "header_section", L_Entete, <<>>),
     c |-> Champ(<<"a","3">>, "HeaderSectionChamp", L_Entete, None, <<>>, <<>>)]

F_Nature ==
    [d |-> Desc(<<"c","1">>, "TextChampDescriptor", "text", L_Nature, <<>>),
     c |-> Champ(<<"c","1">>, "TextChamp", L_Nature, <<"pre">>, <<>>, <<>>)]

F_Zone(g) ==
    [d |-> Desc(<<"c","2">>, "CarteChampDescriptor", "carte", L_Zone, <<>>),
     c |-> Champ(<<"c","2">>, "CarteChamp", L_Zone, None, GeoAreas("z", g), <<>>)]

F_Section(g) ==
    [d |-> Desc(<<"c","3">>, "CarteChampDescriptor", "carte", L_Section, <<>>),
     c |-> Champ(<<"c","3">>, "CarteChamp", L_Section, None, GeoAreas("s", g), <<>>)]

F_Intro ==
    [d |-> Desc(<<"c","4">>, "HeaderSectionChampDescriptor", "header_section", L_Intro, <<>>),
     c |-> Champ(<<"c","4">>, "HeaderSectionChamp", L_Intro, None, <<>>, <<>>)]

F_Lot(g) ==
    [d |-> Desc(<<"c","5">>, "CarteChampDescriptor", "carte", L_Lot, <<>>),
     c |-> Champ(<<"c","5">>, "CarteChamp", L_Lot, None, GeoAreas("l", g), <<>>)]

F_Quote ==
    [d |-> Desc(<<"c","6">>, "TextChampDescriptor", "text", L_Quote, <<>>),
     c |-> Champ(<<"c","6">>, "TextChamp", L_Quote, <<"x">>, <<>>, <<>>)]

\* The rows a repeatable block can hold, as lists of fields.
RowKinds ==
    {<<>>, <<F_Nature>>, <<F_Intro, F_Nature>>, <<F_Nature, F_Quote>>,
     <<F_Nature, F_Zone(0)>>, <<F_Zone(1), F_Lot(1)>>}
    \cup {<<F_Nature, F_Zone(g)>> : g \in 1..MaxGeo}
    \cup {<<F_Nature, F_Section(g)>> : g \in 1..MaxGeo}

RowLists == UNION {[1..n -> RowKinds] : n \in 0..MaxRows}

\* Every sub-list of a list of optional fields, order kept.
RECURSIVE SubLists(_)
SubLists(fs) ==
    IF fs = <<>> THEN {<<>>}
    ELSE LET rest == SubLists(Tail(fs))
         IN  rest \cup {<<Head(fs)>> \o r : r \in rest}

TopLists ==
    {t \o p : t \in SubLists(<<F_Nom, F_Titre>>),
              p \in {<<>>} \cup {<<F_Plan(g)>> : g \in 0..MaxGeo}}

AnnotationLists == SubLists(<<F_Avis, F_Note, F_Entete>>)

RECURSIVE AppendDistinct(_, _)
AppendDistinct(seq, items) ==
    IF items = <<>> THEN seq
    ELSE AppendDistinct(
            IF \E i \in 1..Len(seq) : seq[i].id = Head(items).id
            THEN seq ELSE Append(seq, Head(items)),
            Tail(items))

RECURSIVE Flatten(_)
Flatten(seqs) == IF seqs = <<>> THEN <<>> ELSE Head(seqs) \o Flatten(Tail(seqs))

\* The repeatable block "Parcelles" holding the given rows.
F_Parcelles(rows) ==
    [d |-> Desc(<<"d","9">>, "RepetitionChampDescriptor", "repetition", L_Parcelles,
                AppendDistinct(<<>>, [i \in 1..Len(Flatten(rows)) |-> Flatten(rows)[i].d])),
     c |-> Champ(<<"d","9">>, "RepetitionChamp", L_Parcelles, None, <<>>,
                 [i \in 1..Len(rows) |->
                    [id |-> <<"r">> \o NumText(i),
                     champs |-> [j \in 1..Len(rows[i]) |-> rows[i][j].c]]])]

CaseNumber == 42

\* The forms of the model with one case each: top-level fields, an optional
\* repeatable block, annotations.
Forms ==
    {[champs |-> t \o b, annotations |-> a] :
        t \in TopLists, a \in AnnotationLists,
        b \in {<<>>} \cup {<<F_Parcelles(rows)>> : rows \in RowLists}}

SchemaOf(form) ==
    [champDescriptors |-> [i \in 1..Len(form.champs) |-> form.champs[i].d],
     annotationDescriptors |-> [i \in 1..Len(form.annotations) |-> form.annotations[i].d]]

DossierOf(form) ==
    [number |-> CaseNumber,
     state |-> "en_construction",
     champs |-> [i \in 1..Len(form.champs) |-> form.champs[i].c],
     annotations |-> [i \in 1..Len(form.annotations) |-> form.annotations[i].c]]


\* schema_utils.get_problematic_descriptor_ids_from_schema.explore_descriptors
IsProblematicDescriptor(d) ==
    \/ d.typename \in {"HeaderSectionChampDescriptor", "ExplicationChampDescriptor"}
    \/ d.type \in {"header_section", "explication"}

RECURSIVE ExploreDescriptors(_)
ExploreDescriptors(descriptors) ==
    IF descriptors = <<>> THEN {}
    ELSE LET d == Head(descriptors)
         IN  (IF IsProblematicDescriptor(d) THEN {d.id} ELSE {})
             \cup (IF d.typename = "RepetitionChampDescriptor"
                   THEN ExploreDescriptors(d.champDescriptors) ELSE {})
             \cup ExploreDescriptors(Tail(descriptors))

GetProblematicDescriptorIdsFromSchema(schema) ==
    ExploreDescriptors(schema.champDescriptors)
        \cup ExploreDescriptors(schema.annotationDescriptors)

\* schema_utils.auto_clean_schema_descriptors.filter_descriptors
RECURSIVE FilterDescriptors(_)
FilterDescriptors(descriptors) ==
    IF descriptors = <<>> THEN <<>>
    ELSE LET d == Head(descriptors)
         IN  IF IsProblematicDescriptor(d)
             THEN FilterDescriptors(Tail(descriptors))
             ELSE <<IF d.typename = "RepetitionChampDescriptor"
                    THEN [d EXCEPT !.champDescriptors = FilterDescriptors(@)]
                    ELSE d>> \o FilterDescriptors(Tail(descriptors))

AutoCleanSchemaDescriptors(schema) ==
    [champDescriptors |-> FilterDescriptors(schema.champDescriptors),
     annotationDescriptors |-> FilterDescriptors(schema.annotationDescriptors)]

\* create_columns_from_schema.determine_column_type, on the types of the model
DetermineColumnType(champ_type) ==
    CASE champ_type \in {"number", "decimal_number"} -> "Numeric"
      [] champ_type = "integer_number" -> "Int"
      [] champ_type = "date" -> "Date"
      [] champ_type = "datetime" -> "DateTime"
      [] champ_type \in {"yes_no", "checkbox"} -> "Bool"
      [] OTHER -> "Text"

Col(id, type) == [id |-> id, type |-> type]

ColumnIds(cols) == {cols[i].id : i \in 1..Len(cols)}

\* "if not any(col['id'] == x ...): columns.append(...)"
AddColumn(cols, id, type) ==
    IF id \in ColumnIds(cols) THEN cols ELSE Append(cols, Col(id, type))

\* The fixed columns of the four tables (the case table is cut down to the
\* three attributes the model gives a case).
DossierColumns ==
    <<Col(K_dossier_id, "Text"), Col(K_number, "Int"), Col(K_state, "Text")>>

BaseChampColumns == <<Col(K_dossier_number, "Int"), Col(K_champ_id, "Text")>>

BaseAnnotationColumns == <<Col(K_dossier_number, "Int")>>

BaseRepetableColumns ==
    <<Col(K_dossier_number, "Int"), Col(K_block_label, "Text"),
      Col(K_block_row_index, "Int"), Col(K_block_row_id, "Text"),
      Col(K_field_name, "Text")>>

GeoColumns == <<Col(K_geo_id, "Text"), Col(K_geo_description, "Text")>>

\* The inner loop over the descriptors of one repeatable group.
RECURSIVE InnerDescriptorLoop(_, _)
InnerDescriptorLoop(inner, acc) ==
    IF inner = <<>> THEN acc
    ELSE LET d == Head(inner)
             normalized_label == NormalizeColumnName(d.label, DefaultMaxLength)
         IN  InnerDescriptorLoop(Tail(inner),
                [acc EXCEPT
                    !.has_carto_fields = @ \/ d.type = "carte",
                    !.repetable = AddColumn(@, normalized_label,
                                            DetermineColumnType(d.type))])

\* The loop over the top-level field descriptors.
RECURSIVE ChampDescriptorLoop(_, _, _)
ChampDescriptorLoop(descriptors, ids, acc) ==
    IF descriptors = <<>> THEN acc
    ELSE LET d == Head(descriptors)
             afterInner ==
                IF d.typename = "RepetitionChampDescriptor"
                THEN InnerDescriptorLoop(d.champDescriptors,
                        [acc EXCEPT !.has_repetable_blocks = TRUE])
                ELSE [acc EXCEPT !.has_carto_fields = @ \/ d.type = "carte"]
             normalized_label == NormalizeColumnName(d.label, DefaultMaxLength)
         IN  IF IsProblematicDescriptor(d) \/ d.id \in ids
             THEN ChampDescriptorLoop(Tail(descriptors), ids, acc)
             ELSE ChampDescriptorLoop(Tail(descriptors), ids,
                    [afterInner EXCEPT
                        !.champs = AddColumn(@, normalized_label,
                                             DetermineColumnType(d.type))])

\* The loop over the annotation descriptors.
RECURSIVE AnnotationDescriptorLoop(_, _, _)
AnnotationDescriptorLoop(descriptors, ids, cols) ==
    IF descriptors = <<>> THEN cols
    ELSE LET d == Head(descriptors)
             annotation_label == SchemaColumnId("annotations", d.label)
         IN  IF IsProblematicDescriptor(d) \/ d.id \in ids
             THEN AnnotationDescriptorLoop(Tail(descriptors), ids, cols)
             ELSE AnnotationDescriptorLoop(Tail(descriptors), ids,
                    AddColumn(cols, annotation_label, DetermineColumnType(d.type)))

RECURSIVE AddColumns(_, _)
AddColumns(cols, more) ==
    IF more = <<>> THEN cols
    ELSE AddColumns(AddColumn(cols, Head(more).id, Head(more).type), Tail(more))

\* schema_utils.create_columns_from_schema: the column sets of the tables.
CreateColumnsFromSchema(schema) ==
    LET ids == GetProblematicDescriptorIdsFromSchema(schema)
        acc == ChampDescriptorLoop(schema.champDescriptors, ids,
                    [champs |-> BaseChampColumns,
                     repetable |-> BaseRepetableColumns,
                     has_repetable_blocks |-> FALSE,
                     has_carto_fields |-> FALSE])
        annotation_columns ==
            AnnotationDescriptorLoop(schema.annotationDescriptors, ids,
                                     BaseAnnotationColumns)
    IN  [dossier |-> DossierColumns,
         champs |-> acc.champs,
         annotations |-> annotation_columns,
         repetable_rows |->
            IF acc.has_repetable_blocks
            THEN IF acc.has_carto_fields
                 THEN AddColumns(acc.repetable, GeoColumns)
                 ELSE acc.repetable
            ELSE <<>>,
         has_repetable_blocks |-> acc.has_repetable_blocks,
         has_carto_fields |-> acc.has_carto_fields]


(***************************************************************************)
(* Part B.  The flattener (queries_extract.py).                            *)
(***************************************************************************)
ProblematicTypenames == {"HeaderSectionChamp", "ExplicationChamp"}

\* One extracted value.  json_value stands for the structured value by the
\* id of the geo area it holds, None when there is none.
ChampValue(champ, prefix, original_id, value, json_value) ==
    [id |-> champ.id,
     label |-> prefix \o champ.label,
     base_label |-> champ.label,
     type |-> champ.typename,
     value |-> value,
     json_value |-> json_value,
     row_id |-> IF original_id # champ.id THEN original_id ELSE None]

\* "Zone {j+1}: {source} - {description}"
GeoAreaValue(j, geo_area) == <<"Zone ">> \o NumText(j) \o <<": - ">> \o geo_area.description

\* queries_extract.extract_champ_values(champ, prefix, original_id); the
\* caller passes None for an original_id it does not give.
RECURSIVE ExtractChampValues(_, _, _)
ExtractChampValues(champ, prefix, given_id) ==
    LET original_id == IF given_id = None THEN champ.id ELSE given_id
    IN
    IF champ.typename \in ProblematicTypenames THEN <<>>
    ELSE IF champ.typename = "RepetitionChamp"
    THEN Flatten([i \in 1..Len(champ.rows) |->
            LET row == champ.rows[i]
                row_prefix == prefix \o champ.label \o <<"_">> \o NumText(i) \o <<"_">>
            IN  Flatten([j \in 1..Len(row.champs) |->
                    IF row.champs[j].typename \in ProblematicTypenames
                    THEN <<>>
                    ELSE ExtractChampValues(row.champs[j], row_prefix, row.id)])])
    ELSE IF champ.typename = "CarteChamp"
    THEN (IF champ.geoAreas = <<>>
          THEN <<ChampValue(champ, prefix, original_id,
                            <<"Aucune zone geographique definie">>, None)>>
          ELSE [j \in 1..Len(champ.geoAreas) |->
                    ChampValue(champ, prefix, original_id,
                               GeoAreaValue(j, champ.geoAreas[j]),
                               champ.geoAreas[j].id)])
         \o <<ChampValue(champ, prefix, original_id, None, None)>>
    ELSE <<ChampValue(champ, prefix, original_id, champ.stringValue, None)>>

\* dict[key] = value
Put(d, k, v) == [x \in (DOMAIN d) \cup {k} |-> IF x = k THEN v ELSE d[x]]

EmptyDict == [x \in {} |-> None]

Str__json == <<"_","j","s","o","n">>
Str__geo == <<"_","g","e","o">>

\* extract_repetable_blocks: the values of one row put into row_data.
RECURSIVE PutChampValues(_, _)
PutChampValues(row_data, champ_values) ==
    IF champ_values = <<>> THEN row_data
    ELSE LET v == Head(champ_values)
             with_value == Put(row_data, v.label, v.value)
         IN  PutChampValues(
                IF v.json_value # None
                THEN Put(with_value, v.label \o Str__json, v.json_value)
                ELSE with_value,
                Tail(champ_values))

\* extract_repetable_blocks.process_repetable_champ
ProcessRepetableChamp(champ, dossier_number, block_label) ==
    IF champ.typename # "RepetitionChamp" THEN <<>>
    ELSE [i \in 1..Len(champ.rows) |->
            LET row == champ.rows[i]
                base == (K_dossier_number :> dossier_number)
                        @@ (K_block_label :> block_label)
                        @@ (K_block_row_index :> i)
                        @@ (K_block_row_id :> row.id)
            IN  PutChampValues(base,
                    Flatten([j \in 1..Len(row.champs) |->
                                ExtractChampValues(row.champs[j], <<>>, row.id)]))]

\* queries_extract.extract_repetable_blocks
ExtractRepetableBlocks(dossier) ==
    Flatten([i \in 1..Len(dossier.champs) |->
                ProcessRepetableChamp(dossier.champs[i], dossier.number,
                                      dossier.champs[i].label)])
    \o Flatten([i \in 1..Len(dossier.annotations) |->
                ProcessRepetableChamp(dossier.annotations[i], dossier.number,
                                      Str_annotation_ \o dossier.annotations[i].label)])

\* queries_extract.dossier_to_flat_data
DossierToFlatData(dossier, exclude_repetition_champs, ids) ==
    [dossier |-> [number |-> dossier.number, state |-> dossier.state],
     champs |->
        Flatten([i \in 1..Len(dossier.champs) |->
            LET champ == dossier.champs[i]
            IN  IF exclude_repetition_champs /\ champ.typename = "RepetitionChamp"
                THEN <<>>
                ELSE IF champ.typename \in ProblematicTypenames
                        \/ (ids # {} /\ champ.id \in ids)
                THEN <<>>
                ELSE ExtractChampValues(champ, <<>>, None)]),
     annotations |->
        Flatten([i \in 1..Len(dossier.annotations) |->
            LET annotation == dossier.annotations[i]
            IN  IF exclude_repetition_champs /\ annotation.typename = "RepetitionChamp"
                THEN <<>>
                ELSE IF annotation.typename \in ProblematicTypenames
                THEN <<>>
                ELSE ExtractChampValues(annotation, Str_annotation_, None)]),
     repetable_rows |-> ExtractRepetableBlocks(dossier)]


(***************************************************************************)
(* Part B.  Repeatable rows (repetable_processor.py).                      *)
(***************************************************************************)
\* repetable_processor.should_skip_field; the instances of the model carry
\* no "type" attribute, so the third test never holds.
ShouldSkipField(field, ids) ==
    \/ field.typename \in ProblematicTypenames
    \/ (ids # {} /\ field.id \in ids)

RpBlacklist ==
    {<<"a","t","t","e","n","t","i","o","n">>, <<"t","i","t","r","e">>,
     <<"e","x","p","l","i","c","a","t","i","o","n">>,
     <<"h","e","a","d","e","r">>, <<"s","e","c","t","i","o","n">>}

\* "sep".join(texts)
RECURSIVE Join(_, _)
Join(texts, sep) ==
    IF texts = <<>> THEN <<>>
    ELSE IF Len(texts) = 1 THEN texts[1]
    ELSE texts[1] \o sep \o Join(Tail(texts), sep)

\* repetable_processor.extract_field_value on the typenames of the model
RpExtractFieldValue(champ) ==
    IF ShouldSkipField(champ, {}) THEN [value |-> None, json_value |-> None]
    ELSE IF champ.typename = "CarteChamp"
    THEN IF champ.geoAreas # <<>>
         THEN [value |-> Join([k \in 1..Len(champ.geoAreas) |->
                                    champ.geoAreas[k].description], <<"; ">>),
               json_value |-> Join([k \in 1..Len(champ.geoAreas) |->
                                    champ.geoAreas[k].id], <<",">>)]
         ELSE [value |-> <<"Aucune zone geographique definie">>,
               json_value |-> None]
    ELSE [value |-> champ.stringValue, json_value |-> None]

\* format_value_for_grist (the same in repetable_processor and in
\* grist_processor_working_all) on the values of the model: None stays None,
\* a text under 1000 characters in a Text column is kept, a non-zero number
\* in an Int column is kept.
FormatValueForGrist(value, value_type) ==
    IF value_type = "Int" THEN value
    ELSE IF value = None THEN None ELSE value

ColumnTypeOf(cols, id) ==
    IF \E i \in 1..Len(cols) : cols[i].id = id
    THEN cols[CHOOSE i \in 1..Len(cols) : cols[i].id = id].type
    ELSE "Text"

\* repetable_processor.extract_geo_data, with field_name set by the caller
ExtractGeoData(geo_area, field_name) ==
    [geo_id |-> geo_area.id,
     geo_description |-> geo_area.description,
     field_name |-> field_name]

\* The loop over the fields of one row: row_data, geo_data_list, and whether
\* an exception left the loop.
RECURSIVE RowFieldLoop(_, _, _, _)
RowFieldLoop(fields, ids, cols, acc) ==
    IF fields = <<>> \/ acc.raised THEN acc
    ELSE LET field == Head(fields)
             normalized_label == RpNormalizeColumnName(field.label, RpDefaultMaxLength)
             extracted == RpExtractFieldValue(field)
         IN  IF ShouldSkipField(field, ids)
             THEN RowFieldLoop(Tail(fields), ids, cols, acc)
             ELSE IF normalized_label = RAISED
             THEN [acc EXCEPT !.raised = TRUE]
             ELSE IF LowerText(normalized_label) \in RpBlacklist
             THEN RowFieldLoop(Tail(fields), ids, cols, acc)
             ELSE IF extracted.value = None /\ extracted.json_value = None
             THEN RowFieldLoop(Tail(fields), ids, cols, acc)
             ELSE RowFieldLoop(Tail(fields), ids, cols,
                    [acc EXCEPT
                        !.row_data = Put(@, normalized_label,
                                         FormatValueForGrist(extracted.value,
                                            ColumnTypeOf(cols, normalized_label))),
                        !.geo_data_list =
                            IF field.typename = "CarteChamp"
                            THEN @ \o [k \in 1..Len(field.geoAreas) |->
                                        ExtractGeoData(field.geoAreas[k], normalized_label)]
                            ELSE @])

\* dict.update(other)
Update(d, other) == other @@ d

\* The first search key present in the index, 0 when none is.
RECURSIVE FindExisting(_, _)
FindExisting(search_keys, existing_rows) ==
    IF search_keys = <<>> THEN 0
    ELSE IF Head(search_keys) \in DOMAIN existing_rows
         THEN existing_rows[Head(search_keys)]
         ELSE FindExisting(Tail(search_keys), existing_rows)

\* One geometry of a row: the record and the row it updates (id 0: create).
GeoRecord(dossier_number, block_label, row_id, geo_index, geo_data, base_record, row_data, cols, existing_rows) ==
    LET geo_identifier == row_id \o Str__geo \o NumText(geo_index)
        prefix == NumText(dossier_number) \o <<"_">> \o block_label \o <<"_">>
        geo_record ==
            Put(Put(Put(Put(Update(base_record, row_data),
                K_block_row_id, geo_identifier),
                K_geo_id, FormatValueForGrist(geo_data.geo_id, ColumnTypeOf(cols, K_geo_id))),
                K_geo_description, FormatValueForGrist(geo_data.geo_description,
                                        ColumnTypeOf(cols, K_geo_description))),
                K_field_name, FormatValueForGrist(geo_data.field_name,
                                        ColumnTypeOf(cols, K_field_name)))
        search_keys ==
            <<LowerText(prefix \o geo_identifier),
              LowerText(prefix \o row_id \o Str__geo \o NumText(geo_index))>>
            \o (IF geo_data.field_name # <<>> /\ geo_data.geo_id # <<>>
                THEN <<LowerText(prefix \o geo_data.field_name \o <<"_">> \o geo_data.geo_id)>>
                ELSE <<>>)
    IN  [id |-> FindExisting(search_keys, existing_rows), fields |-> geo_record]

\* process_repetable_field, one row: the records it yields.
ProcessRepetableRow(dossier_number, block_label, row_index, row, ids, cols, existing_rows) ==
    LET acc == RowFieldLoop(row.champs, ids, cols,
                    [row_data |-> EmptyDict, geo_data_list |-> <<>>, raised |-> FALSE])
        row_id == row.id
        base_record == (K_dossier_number :> dossier_number)
                       @@ (K_block_label :> block_label)
                       @@ (K_block_row_index :> row_index)
                       @@ (K_block_row_id :> row_id)
        prefix == NumText(dossier_number) \o <<"_">> \o block_label \o <<"_">>
        search_keys == <<LowerText(prefix \o row_id),
                         LowerText(prefix \o <<"i","n","d","e","x","_">> \o NumText(row_index)),
                         row_id>>
    IN  IF acc.raised THEN <<>>
        ELSE IF acc.geo_data_list # <<>>
        THEN [k \in 1..Len(acc.geo_data_list) |->
                GeoRecord(dossier_number, block_label, row_id, k, acc.geo_data_list[k],
                          base_record, acc.row_data, cols, existing_rows)]
        ELSE <<[id |-> FindExisting(search_keys, existing_rows),
                fields |-> Update(base_record, acc.row_data)]>>

\* process_repetable_field over the rows of one block
ProcessRepetableField(champ, dossier_number, ids, cols, existing_rows) ==
    IF champ.typename # "RepetitionChamp" THEN <<>>
    ELSE Flatten([i \in 1..Len(champ.rows) |->
            ProcessRepetableRow(dossier_number, champ.label, i, champ.rows[i],
                                ids, cols, existing_rows)])

\* process_repetables_batch.extract_repetable_rows: the records of one case
\* in the order built; id 0 marks a record to create.
ExtractRepetableRows(dossier, ids, cols, existing_rows) ==
    LET over(champs) ==
            Flatten([i \in 1..Len(champs) |->
                IF ids # {} /\ champs[i].id \in ids THEN <<>>
                ELSE ProcessRepetableField(champs[i], dossier.number, ids, cols,
                                           existing_rows)])
    IN  over(dossier.champs) \o over(dossier.annotations)


(***************************************************************************)
(* Part B.  One case through the builder, the flattener and the            *)
(* repeatable-row extraction.                                              *)
(***************************************************************************)
\* The variables of Part A while another part runs.
NormIdle ==
    /\ label = NULL
    /\ colId = NULL
    /\ colId2 = NULL
    /\ schemaIds = NULL
    /\ writeIds = NULL
    /\ npc = "idle"

FlatInit ==
    /\ \E form \in Forms :
            /\ demarche_schema = SchemaOf(form)
            /\ dossier_data = DossierOf(form)
    /\ column_types = NULL
    /\ problematic_ids = NULL
    /\ flat_data = NULL
    /\ rep_records = NULL
    /\ fpc = "fetch"
    /\ NormIdle
    /\ GristIdle
    /\ LaterIdle

\* get_optimized_schema: the robust retrieval returns the tree cleaned of its
\* header and explanation descriptors; when it fails the classic retrieval
\* returns the tree as the platform gives it.
GetOptimizedSchema ==
    /\ fpc = "fetch"
    /\ \E robust_ok \in BOOLEAN :
            demarche_schema' = IF robust_ok
                               THEN AutoCleanSchemaDescriptors(demarche_schema)
                               ELSE demarche_schema
    /\ fpc' = "schema"
    /\ UNCHANGED <<dossier_data, column_types, problematic_ids, flat_data,
                   rep_records, normVars, gristVars, laterVars>>

\* process_demarche_for_grist_optimized: the column sets from the schema
CreateColumns ==
    /\ fpc = "schema"
    /\ column_types' = CreateColumnsFromSchema(demarche_schema)
    /\ problematic_ids' = GetProblematicDescriptorIdsFromSchema(demarche_schema)
    /\ fpc' = "flatten"
    /\ UNCHANGED <<demarche_schema, dossier_data, flat_data, rep_records, normVars, gristVars, laterVars>>

\* process_demarche_for_grist_optimized: the case is flattened
FlattenDossier ==
    /\ fpc = "flatten"
    /\ flat_data' = DossierToFlatData(dossier_data,
                        column_types.has_repetable_blocks, problematic_ids)
    /\ fpc' = "repetables"
    /\ UNCHANGED <<demarche_schema, dossier_data, column_types, problematic_ids,
                   rep_records, normVars, gristVars, laterVars>>

\* process_demarche_for_grist_optimized: the repeatable rows of the case are
\* extracted when the form has a repeatable block (here on an empty table).
ExtractRepetables ==
    /\ fpc = "repetables"
    /\ rep_records' =
            IF column_types.has_repetable_blocks
            THEN ExtractRepetableRows(dossier_data, problematic_ids,
                                      column_types.repetable_rows, EmptyDict)
            ELSE <<>>
    /\ fpc' = "done"
    /\ UNCHANGED <<demarche_schema, dossier_data, column_types, problematic_ids,
                   flat_data, normVars, gristVars, laterVars>>

FlatNext ==
    \/ GetOptimizedSchema
    \/ CreateColumns
    \/ FlattenDossier
    \/ ExtractRepetables

SpecFlatten == FlatInit /\ [][FlatNext]_vars


(***************************************************************************)
(* Part B.  Properties of the builder, the flattener and the extraction.   *)
(***************************************************************************)
\* The descriptors of a schema, those nested in a repeatable group included.
AllDescriptors(schema) ==
    LET top == schema.champDescriptors \o schema.annotationDescriptors
    IN  {top[i] : i \in 1..Len(top)}
        \cup UNION {{top[i].champDescriptors[j] :
                        j \in 1..Len(top[i].champDescriptors)} : i \in 1..Len(top)}

\* The number of geo areas the map-kind fields of a row carry in total.
RECURSIVE GeoAreaCount(_)
GeoAreaCount(champs) ==
    IF champs = <<>> THEN 0
    ELSE (IF Head(champs).typename = "CarteChamp" THEN Len(Head(champs).geoAreas) ELSE 0)
         + GeoAreaCount(Tail(champs))

\* The rows of the repeatable blocks of a case, in order.
BlockRows(dossier) ==
    Flatten([i \in 1..Len(dossier.champs) |-> dossier.champs[i].rows])

\* The extracted records that stem from one row.
RecordsOfRow(records, row) ==
    SelectSeq(records, LAMBDA r :
        \/ r.fields[K_block_row_id] = row.id
        \/ StartsWith(r.fields[K_block_row_id], row.id \o Str__geo))

GeoKeys == {K_block_row_id, K_geo_id, K_geo_description, K_field_name}

SameNonGeoValues(r1, r2) ==
    /\ DOMAIN r1.fields = DOMAIN r2.fields
    /\ \A k \in (DOMAIN r1.fields) \ GeoKeys : r1.fields[k] = r2.fields[k]

\* C5: a repeatable row whose map fields carry N >= 1 geo areas yields
\* exactly N records with ids <row_id>_geo1 .. <row_id>_geoN and the same
\* non-geo values; a row with no geo area yields exactly one record with id
\* <row_id>.
C5_GeoFanOut ==
    fpc = "done" =>
        \A i \in 1..Len(BlockRows(dossier_data)) :
            LET row == BlockRows(dossier_data)[i]
                n == GeoAreaCount(row.champs)
                recs == RecordsOfRow(rep_records, row)
            IN  IF n = 0
                THEN Len(recs) = 1 /\ recs[1].fields[K_block_row_id] = row.id
                ELSE /\ Len(recs) = n
                     /\ \A k \in 1..n :
                            /\ recs[k].fields[K_block_row_id]
                                    = row.id \o Str__geo \o NumText(k)
                            /\ SameNonGeoValues(recs[k], recs[1])

\* Whether the flattener is to leave a top-level instance out.
Suppressed(champ, ids) == champ.typename \in ProblematicTypenames \/ champ.id \in ids

ExpectedFieldRows(dossier, ids) ==
    Cardinality({i \in 1..Len(dossier.champs) :
                    /\ ~Suppressed(dossier.champs[i], ids)
                    /\ dossier.champs[i].typename # "RepetitionChamp"})

RECURSIVE ExpectedRepetableRecords(_)
ExpectedRepetableRecords(rows) ==
    IF rows = <<>> THEN 0
    ELSE (IF GeoAreaCount(Head(rows).champs) = 0 THEN 1
          ELSE GeoAreaCount(Head(rows).champs))
         + ExpectedRepetableRecords(Tail(rows))

\* The case of the end-to-end scenario: one text field, one block of two
\* rows, the first with a map field of two geo areas, the second with none.
ScenarioForm ==
    [champs |-> <<F_Nom, F_Parcelles(<<<<F_Nature, F_Zone(2)>>, <<F_Nature>>>>)>>,
     annotations |-> <<>>]

\* C6: flattening a case yields one field row per non-suppressed
\* non-repeatable field and one repeatable-row record per geo area of each
\* row (one for a row without geo area); the scenario case yields 1 field
\* row, 0 annotation rows and 3 repeatable-row records.
C6_FlattenOutput ==
    fpc = "done" =>
        /\ Len(flat_data.champs) = ExpectedFieldRows(dossier_data, problematic_ids)
        /\ Len(flat_data.repetable_rows)
                = ExpectedRepetableRecords(BlockRows(dossier_data))
        /\ dossier_data = DossierOf(ScenarioForm) =>
                /\ Len(flat_data.champs) = 1
                /\ Len(flat_data.annotations) = 0
                /\ Len(flat_data.repetable_rows) = 3

\* C7: no column id derived from a header or explanation descriptor is in
\* a built column set, descriptors nested in a repeatable group included.
C7_NoSuppressedColumn ==
    fpc \in {"flatten", "repetables", "done"} =>
        \A d \in AllDescriptors(demarche_schema) :
            IsProblematicDescriptor(d) =>
                \A t \in Tables :
                    SchemaColumnId(t, d.label) \notin ColumnIds(column_types[t])

\* C8: the flattener emits no field row and no annotation row for an
\* instance of header or explanation kind or with a suppressed id.
C8_NoSuppressedRow ==
    fpc = "done" =>
        LET emitted == flat_data.champs \o flat_data.annotations
        IN  \A i \in 1..Len(emitted) :
                /\ emitted[i].type \notin ProblematicTypenames
                /\ emitted[i].id \notin problematic_ids

\* The column ids that the top-level descriptors other than repeatable
\* groups give the fields column set.
FieldColumnIdsOf(schema, ids) ==
    {NormalizeColumnName(schema.champDescriptors[i].label, DefaultMaxLength) :
        i \in {k \in 1..Len(schema.champDescriptors) :
                LET d == schema.champDescriptors[k]
                IN  /\ d.typename # "RepetitionChampDescriptor"
                    /\ ~IsProblematicDescriptor(d)
                    /\ d.id \notin ids}}

\* The repeatable groups of a schema that are not suppressed.
GroupsOf(schema, ids) ==
    {schema.champDescriptors[i] :
        i \in {k \in 1..Len(schema.champDescriptors) :
                LET d == schema.champDescriptors[k]
                IN  /\ d.typename = "RepetitionChampDescriptor"
                    /\ ~IsProblematicDescriptor(d)
                    /\ d.id \notin ids}}

\* C20: a repeatable-group descriptor gives the columns of its child
\* descriptors to the repeatable-rows column set only, and the group
\* descriptor itself gives no column to the fields column set.
C20_GroupAddsNoFieldColumn ==
    fpc \in {"flatten", "repetables", "done"} =>
        \A g \in GroupsOf(demarche_schema, problematic_ids) :
            LET own == FieldColumnIdsOf(demarche_schema, problematic_ids)
                        \cup ColumnIds(BaseChampColumns)
                children == {NormalizeColumnName(g.champDescriptors[i].label,
                                                 DefaultMaxLength) :
                                i \in 1..Len(g.champDescriptors)}
            IN  /\ children \subseteq ColumnIds(column_types.repetable_rows)
                /\ \A id \in (children \cup
                              {NormalizeColumnName(g.label, DefaultMaxLength)}) \ own :
                        id \notin ColumnIds(column_types.champs)

(***************************************************************************)
(* Part C.  The backend document and the reconciliation of records         *)
(* (grist_processor_working_all.py, repetable_processor.py).               *)
(***************************************************************************)
GristTables == {"dossiers"} \cup Tables

\* The case number n of a form: its own case id and its own row ids.
CaseOf(form, n) ==
    LET d == DossierOf(form)
        OwnRow(row) == [id |-> row.id \o <<"x">> \o NumText(n), champs |-> row.champs]
        Own(champs) ==
            [i \in 1..Len(champs) |->
                [champs[i] EXCEPT !.rows = [k \in 1..Len(champs[i].rows) |->
                                                OwnRow(champs[i].rows[k])]]]
    IN  [id |-> <<"D">> \o NumText(n),
         number |-> n,
         state |-> d.state,
         champs |-> Own(d.champs),
         annotations |-> Own(d.annotations)]

\* ---- The backend document.  A call either is answered 200 or fails; what
\* ---- an answered call does to the document:
\* POST /tables/{id}/columns: the columns of the payload the table has not yet
BackendAddColumns(table_columns, payload) == AddColumns(table_columns, payload)

\* PATCH /tables/{id}/records: each record of the payload, in order, replaces
\* the named cells of the row that has its id
RECURSIVE ApplyUpdates(_, _)
ApplyUpdates(fields, payload) ==
    IF payload = <<>> THEN fields
    ELSE ApplyUpdates(Update(fields, Head(payload).fields), Tail(payload))

BackendPatch(table_rows, payload) ==
    [i \in 1..Len(table_rows) |->
        [id |-> table_rows[i].id,
         fields |-> ApplyUpdates(table_rows[i].fields,
                        SelectSeq(payload, LAMBDA r : r.id = table_rows[i].id))]]

\* POST /tables/{id}/records: one new row per record of the payload
BackendPost(table_rows, payload) ==
    table_rows \o [j \in 1..Len(payload) |->
                        [id |-> Len(table_rows) + j, fields |-> payload[j].fields]]

\* One call as the history keeps it.
Call(op, table, ok, payload) ==
    [op |-> op, table |-> table, ok |-> ok, payload |-> payload]

FailedCalls(calls) == Cardinality({i \in 1..Len(calls) : ~calls[i].ok})

\* "fields[k]" is set and truthy, for the Int columns dossier_number and number
IsSet(fields, k) == k \in DOMAIN fields /\ fields[k] # 0

\* GristClient.get_existing_dossier_numbers, the loop over the records
RECURSIVE DossierDict(_, _)
DossierDict(table_rows, dossier_dict) ==
    IF table_rows = <<>> THEN dossier_dict
    ELSE LET record == Head(table_rows)
             fields == record.fields
         IN  DossierDict(Tail(table_rows),
                IF IsSet(fields, K_dossier_number)
                THEN Put(dossier_dict, NumText(fields[K_dossier_number]), record.id)
                ELSE IF IsSet(fields, K_number)
                THEN Put(dossier_dict, NumText(fields[K_number]), record.id)
                ELSE dossier_dict)

\* An index that takes only the rows that have a dossier_number cell
GetExistingDossierNumbersNoFallback(table_rows, ok) ==
    IF ok
    THEN DossierDict(SelectSeq(table_rows, LAMBDA r : IsSet(r.fields, K_dossier_number)),
                     EmptyDict)
    ELSE EmptyDict

\* GristClient.get_existing_dossier_numbers: the index, empty when the read
\* of the records is not answered 200
GetExistingDossierNumbers(table_rows, ok) ==
    IF ok THEN DossierDict(table_rows, EmptyDict) ELSE EmptyDict

\* upsert_multiple_dossiers_in_grist: the keys of a record that are kept
FilterRowDict(row_dict, existing_columns) ==
    [key \in {k \in DOMAIN row_dict :
                \/ existing_columns = {}
                \/ k \in existing_columns
                \/ k = K_dossier_number} |-> row_dict[key]]

\* row.get("dossier_number") or row.get("number"), 0 when neither is set
DossierNumberOf(row_dict) ==
    IF IsSet(row_dict, K_dossier_number) THEN row_dict[K_dossier_number]
    ELSE IF IsSet(row_dict, K_number) THEN row_dict[K_number]
    ELSE 0

\* upsert_multiple_dossiers_in_grist: the partition into updates and creations
RECURSIVE PartitionRecords(_, _, _, _)
PartitionRecords(dossiers_list, existing_records, existing_columns, acc) ==
    IF dossiers_list = <<>> THEN acc
    ELSE LET filtered_row_dict == FilterRowDict(Head(dossiers_list), existing_columns)
             dossier_number == DossierNumberOf(filtered_row_dict)
             dossier_number_str == NumText(dossier_number)
         IN  PartitionRecords(Tail(dossiers_list), existing_records, existing_columns,
                IF dossier_number = 0 THEN acc
                ELSE IF dossier_number_str \in DOMAIN existing_records
                THEN [acc EXCEPT !.to_update =
                        Append(@, [id |-> existing_records[dossier_number_str],
                                   fields |-> filtered_row_dict])]
                ELSE [acc EXCEPT !.to_create =
                        Append(@, [id |-> 0, fields |-> filtered_row_dict])])

\* The union of the field names of the records, each record padded with None
AllKeys(recs) == UNION {DOMAIN recs[i].fields : i \in 1..Len(recs)}

NormalizeRecords(recs) ==
    [i \in 1..Len(recs) |->
        [id |-> recs[i].id,
         fields |-> [k \in AllKeys(recs) |->
                        IF k \in DOMAIN recs[i].fields THEN recs[i].fields[k]
                        ELSE None]]]

\* The records whose own update is answered
RECURSIVE AnsweredFrom(_, _, _)
AnsweredFrom(recs, single_ok, k) ==
    IF k > Len(recs) THEN <<>>
    ELSE (IF single_ok[k] THEN <<recs[k]>> ELSE <<>>) \o AnsweredFrom(recs, single_ok, k + 1)

\* One PATCH per record, each counted by its own answer; acc holds the rows,
\* the calls and the two counters
PatchEach(table_id, recs, single_ok, acc) ==
    [rows |-> BackendPatch(acc.rows, AnsweredFrom(recs, single_ok, 1)),
     calls |-> acc.calls \o [k \in 1..Len(recs) |->
                                Call("PATCH records", table_id, single_ok[k], <<recs[k]>>)],
     total_success |-> acc.total_success + Cardinality({k \in 1..Len(recs) : single_ok[k]}),
     total_errors |-> acc.total_errors + Cardinality({k \in 1..Len(recs) : ~single_ok[k]})]

\* An update of rows that gives up on the batch when its call fails
WriteUpdatesNoRetry(table_id, normalized_updates, ok, acc) ==
    IF normalized_updates = <<>> THEN acc
    ELSE IF table_id = "champs"
    THEN PatchEach(table_id, normalized_updates, ok.single, acc)
    ELSE [rows |-> IF ok.batch THEN BackendPatch(acc.rows, normalized_updates) ELSE acc.rows,
          calls |-> Append(acc.calls,
                        Call("PATCH records", table_id, ok.batch, normalized_updates)),
          total_success |-> acc.total_success
                            + (IF ok.batch THEN Len(normalized_updates) ELSE 0),
          total_errors |-> acc.total_errors
                            + (IF ok.batch THEN 0 ELSE Len(normalized_updates))]

\* upsert_multiple_dossiers_in_grist, "if to_update": the field table is
\* updated record by record, the other tables in one batch and record by
\* record when the batch fails
WriteUpdates(table_id, normalized_updates, ok, acc) ==
    IF normalized_updates = <<>> THEN acc
    ELSE IF table_id = "champs"
    THEN PatchEach(table_id, normalized_updates, ok.single, acc)
    ELSE IF ok.batch
    THEN [rows |-> BackendPatch(acc.rows, normalized_updates),
          calls |-> Append(acc.calls,
                        Call("PATCH records", table_id, TRUE, normalized_updates)),
          total_success |-> acc.total_success + Len(normalized_updates),
          total_errors |-> acc.total_errors]
    ELSE PatchEach(table_id, normalized_updates, ok.single,
            [acc EXCEPT !.calls = Append(@, Call("PATCH records", table_id, FALSE,
                                                 normalized_updates))])

\* upsert_multiple_dossiers_in_grist, "if to_create": one batch, no retry
WriteCreations(table_id, creations, ok, acc) ==
    IF creations = <<>> THEN acc
    ELSE [rows |-> IF ok.create THEN BackendPost(acc.rows, creations) ELSE acc.rows,
          calls |-> Append(acc.calls, Call("POST records", table_id, ok.create, creations)),
          total_success |-> acc.total_success + (IF ok.create THEN Len(creations) ELSE 0),
          total_errors |-> acc.total_errors + (IF ok.create THEN 0 ELSE Len(creations))]

\* GristClient.upsert_multiple_dossiers_in_grist: the rows it leaves, the
\* calls it issues and its result.  ok tells which calls are answered 200:
\* the read of the records, the read of the columns, the batch update, each
\* single update, the batch creation.  Each stage is a set of one value.
UpsertMultipleDossiersInGrist(table_id, dossiers_list, table_rows, table_columns, ok) ==
    LET existing_columns == IF ok.columns THEN ColumnIds(table_columns) ELSE {}
        partitioned ==
            {PartitionRecords(dossiers_list, existing_records, existing_columns,
                              [to_update |-> <<>>, to_create |-> <<>>]) :
                existing_records \in {GetExistingDossierNumbers(table_rows, ok.index)}}
        normalized ==
            {[updates |-> NormalizeRecords(parts.to_update),
              creations |-> NormalizeRecords(parts.to_create)] : parts \in partitioned}
        start == [rows |-> table_rows,
                  calls |-> <<Call("GET records", table_id, ok.index, <<>>),
                              Call("GET columns", table_id, ok.columns, <<>>)>>,
                  total_success |-> 0,
                  total_errors |-> 0]
        updated ==
            {[acc |-> WriteUpdates(table_id, n.updates, ok, start),
              creations |-> n.creations] : n \in normalized}
        created ==
            {WriteCreations(table_id, u.creations, ok, u.acc) : u \in updated}
    IN  CHOOSE result \in
            {[rows |-> c.rows,
              calls |-> c.calls,
              total_success |-> c.total_success,
              total_errors |-> c.total_errors,
              success |-> c.total_success > 0 /\ c.total_errors = 0] : c \in created} : TRUE

\* The choices of answers to the calls of one upsert of n records.
UpsertAnswers(n) ==
    [index : BOOLEAN, columns : BOOLEAN, batch : BOOLEAN,
     single : [1..n -> BOOLEAN], create : BOOLEAN]


\* ---- process_demarche_for_grist_optimized: the records of one case

\* flat_data["dossier"] as the dict the orchestrator reads
DossierInfo(dossier) ==
    (K_dossier_id :> dossier.id)
    @@ (K_dossier_number :> dossier.number)
    @@ (K_dossier_state :> <<dossier.state>>)

\* The record for the case table: one value per column of column_types["dossier"]
RECURSIVE DossierRecordLoop(_, _, _)
DossierRecordLoop(cols, dossier_info, dossier_record) ==
    IF cols = <<>> THEN dossier_record
    ELSE LET field_id == Head(cols).id
             field_type == Head(cols).type
         IN  DossierRecordLoop(Tail(cols), dossier_info,
                IF field_id \in DOMAIN dossier_info
                THEN Put(dossier_record, field_id,
                         FormatValueForGrist(dossier_info[field_id], field_type))
                ELSE IF Str_dossier_ \o field_id \in DOMAIN dossier_info
                THEN Put(dossier_record, field_id,
                         FormatValueForGrist(dossier_info[Str_dossier_ \o field_id],
                                             field_type))
                ELSE dossier_record)

DossierRecord(dossier, cols) ==
    LET dossier_record == DossierRecordLoop(cols, DossierInfo(dossier), EmptyDict)
    IN  IF K_number \in DOMAIN dossier_record THEN dossier_record
        ELSE Put(dossier_record, K_number, dossier.number)

\* json.dumps(json_value): the text of the structured value
JsonDumps(json_value) == Str_json \o json_value

\* The ids of the flattened entries that have one
EntryIds(entries) ==
    SelectSeq([i \in 1..Len(entries) |-> entries[i].id], LAMBDA id : id # <<>>)

\* The value the orchestrator writes for one flattened entry
EntryValue(entry) ==
    IF entry.type = "CarteChamp" /\ entry.json_value # None
    THEN JsonDumps(entry.json_value)
    ELSE entry.value

\* The loop over flat_data["champs"]
RECURSIVE ChampRecordLoop(_, _, _)
ChampRecordLoop(entries, cols, champ_record) ==
    IF entries = <<>> THEN champ_record
    ELSE LET champ == Head(entries)
             normalized_label == NormalizeColumnName(champ.label, DefaultMaxLength)
         IN  ChampRecordLoop(Tail(entries), cols,
                IF champ.type \in ProblematicTypenames THEN champ_record
                ELSE Put(champ_record, normalized_label,
                         FormatValueForGrist(EntryValue(champ),
                                             ColumnTypeOf(cols, normalized_label))))

ChampRecord(dossier_num, entries, cols) ==
    LET champ_ids == EntryIds(entries)
        start == (K_dossier_number :> dossier_num)
    IN  ChampRecordLoop(entries, cols,
            IF champ_ids # <<>> THEN Put(start, K_champ_id, Join(champ_ids, <<"_">>))
            ELSE start)

\* The column of an annotation entry: the prefix "annotation_" is cut off
AnnotationColumnId(original_label) ==
    IF StartsWith(original_label, Str_annotation_)
    THEN NormalizeColumnName(SubSeq(original_label, 12, Len(original_label)),
                             DefaultMaxLength)
    ELSE NormalizeColumnName(original_label, DefaultMaxLength)

\* The loop over flat_data["annotations"]
RECURSIVE AnnotationRecordLoop(_, _, _)
AnnotationRecordLoop(entries, cols, annotation_record) ==
    IF entries = <<>> THEN annotation_record
    ELSE LET annotation == Head(entries)
             normalized_label == AnnotationColumnId(annotation.label)
             with_value == Put(annotation_record, normalized_label,
                               FormatValueForGrist(EntryValue(annotation),
                                    ColumnTypeOf(cols, normalized_label)))
         IN  AnnotationRecordLoop(Tail(entries), cols,
                IF annotation.type \in ProblematicTypenames THEN annotation_record
                ELSE Put(with_value, normalized_label \o Str__id, annotation.id))

AnnotationRecord(dossier_num, entries, cols) ==
    LET annotation_ids == EntryIds(entries)
        start == (K_dossier_number :> dossier_num)
    IN  AnnotationRecordLoop(entries, cols,
            IF annotation_ids # <<>>
            THEN Put(start, K_annotation_id, Join(annotation_ids, <<"_">>))
            ELSE start)


\* ---- The handlers that add columns

\* add_id_columns_based_on_annotations: the "<label>_id" columns of the
\* flattened annotations; the columns the table has are taken out only when
\* the read of the columns is answered 200
AddIdColumnsBasedOnAnnotations(table_columns, annotations, get_ok, post_ok) ==
    LET listed == [i \in 1..Len(annotations) |->
                        Col(AnnotationColumnId(annotations[i].label) \o Str__id, "Text")]
        columns_to_add ==
            IF get_ok
            THEN SelectSeq(listed, LAMBDA col : col.id \notin ColumnIds(table_columns))
            ELSE listed
        read == <<Call("GET columns", "annotations", get_ok, <<>>)>>
    IN  IF listed = <<>> THEN [columns |-> table_columns, calls |-> <<>>]
        ELSE IF columns_to_add = <<>> THEN [columns |-> table_columns, calls |-> read]
        ELSE [columns |-> IF post_ok THEN BackendAddColumns(table_columns, columns_to_add)
                          ELSE table_columns,
              calls |-> Append(read, Call("POST columns", "annotations", post_ok,
                                          columns_to_add))]

\* update_grist_tables_from_schema.add_missing_columns
AddMissingColumns(table_id, all_columns, table_columns, get_ok, post_ok) ==
    LET missing_columns ==
            SelectSeq(all_columns, LAMBDA col : col.id \notin ColumnIds(table_columns))
        read == <<Call("GET columns", table_id, get_ok, <<>>)>>
    IN  IF ~get_ok THEN [columns |-> table_columns, calls |-> read]
        ELSE IF missing_columns = <<>> THEN [columns |-> table_columns, calls |-> read]
        ELSE [columns |-> IF post_ok THEN BackendAddColumns(table_columns, missing_columns)
                          ELSE table_columns,
              calls |-> Append(read, Call("POST columns", table_id, post_ok,
                                          missing_columns))]

\* column_types[...] of a table
SchemaColumnsOf(ct, table_id) ==
    CASE table_id = "dossiers" -> ct.dossier
      [] table_id = "champs" -> ct.champs
      [] table_id = "annotations" -> ct.annotations
      [] table_id = "repetable_rows" -> ct.repetable_rows

\* The columns the repeatable-rows table is created with
RepetableCreationColumns == SubSeq(BaseRepetableColumns, 1, 4)

\* update_grist_tables_from_schema, one table: it is created with its columns
\* when the document has none of that name, else its missing columns are
\* added; the repeatable-rows table is handled only for a form that has a
\* repeatable block.
UpdateTable(table_id, ct, exists, table_columns, get_ok, post_ok) ==
    IF table_id = "repetable_rows" /\ ~ct.has_repetable_blocks
    THEN [exists |-> exists, columns |-> table_columns, calls |-> <<>>]
    ELSE IF ~exists
    THEN IF table_id = "repetable_rows"
         THEN LET added == AddMissingColumns(table_id, ct.repetable_rows,
                                RepetableCreationColumns, get_ok, post_ok)
              IN  [exists |-> TRUE,
                   columns |-> added.columns,
                   calls |-> <<Call("POST tables", table_id, TRUE,
                                    RepetableCreationColumns)>> \o added.calls]
         ELSE [exists |-> TRUE,
               columns |-> SchemaColumnsOf(ct, table_id),
               calls |-> <<Call("POST tables", table_id, TRUE,
                                SchemaColumnsOf(ct, table_id))>>]
    ELSE LET added == AddMissingColumns(table_id, SchemaColumnsOf(ct, table_id),
                                        table_columns, get_ok, post_ok)
         IN  [exists |-> TRUE, columns |-> added.columns, calls |-> added.calls]

\* update_grist_tables_from_schema over the four tables, in its order
UpdateGristTables(ct, doc_tables, doc_columns, get_ok, post_ok) ==
    CHOOSE result \in
        {[tables |-> {t \in GristTables : done[t].exists},
          columns |-> [t \in GristTables |-> done[t].columns],
          calls |-> done["dossiers"].calls \o done["champs"].calls
                    \o done["annotations"].calls \o done["repetable_rows"].calls] :
            done \in {[t \in GristTables |->
                        UpdateTable(t, ct, t \in doc_tables, doc_columns[t],
                                    get_ok[t], post_ok[t])]}} : TRUE

\* ---- repetable_processor: the index of the repeatable rows and the batch

Str_index_ == <<"i","n","d","e","x","_">>

\* A text value that is set and not empty
IsText(v) == v # None /\ v # <<>>

\* s.replace(a, b) for single characters
ReplaceChar(s, a, b) == [i \in 1..Len(s) |-> IF s[i] = a THEN b ELSE s[i]]

\* re.search(r'_geo(\d+)$', s): where the leftmost match starts, 0 when none
GeoMatch(s) ==
    LET starts == {i \in 1..Len(s) :
                        /\ i + 4 <= Len(s)
                        /\ SubSeq(s, i, i + 3) = Str__geo
                        /\ \A j \in (i + 4)..Len(s) : s[j] \in Digits}
    IN  IF starts = {} THEN 0
        ELSE CHOOSE i \in starts : \A j \in starts : i <= j

\* s.split('_geo')[0]
BeforeGeo(s) ==
    LET starts == {i \in 1..Len(s) : i + 3 <= Len(s) /\ SubSeq(s, i, i + 3) = Str__geo}
    IN  IF starts = {} THEN s
        ELSE SubSeq(s, 1, (CHOOSE i \in starts : \A j \in starts : i <= j) - 1)

\* get_existing_repetable_rows_improved_no_filter: the keys one row is
\* entered under
RepetableRowKeys(fields) ==
    LET current_dossier_number == NumText(fields[K_dossier_number])
        block_label == fields[K_block_label]
        has_row_id == K_block_row_id \in DOMAIN fields /\ IsText(fields[K_block_row_id])
        row_identifier ==
            IF has_row_id THEN fields[K_block_row_id]
            ELSE Str_index_ \o NumText(fields[K_block_row_index])
        Key(lbl, ident) == current_dossier_number \o <<"_">> \o lbl \o <<"_">> \o ident
        key1 == Key(block_label, row_identifier)
        match == GeoMatch(row_identifier)
    IN  IF ~({K_dossier_number, K_block_label} \subseteq DOMAIN fields) THEN {}
        ELSE IF ~has_row_id /\ K_block_row_index \notin DOMAIN fields THEN {}
        ELSE {key1, LowerText(key1),
              Key(ReplaceChar(block_label, " ", "_"), row_identifier),
              Key(SelectSeq(block_label, IsWord), row_identifier)}
             \cup (IF K_block_row_index \in DOMAIN fields
                   THEN {Key(block_label, Str_index_ \o NumText(fields[K_block_row_index]))}
                   ELSE {})
             \cup (IF has_row_id THEN {fields[K_block_row_id]} ELSE {})
             \cup (IF /\ K_field_name \in DOMAIN fields
                      /\ K_geo_id \in DOMAIN fields
                      /\ IsText(fields[K_geo_id])
                   THEN {LowerText(Key(block_label,
                            fields[K_field_name] \o <<"_">> \o fields[K_geo_id]))}
                        \cup (IF match # 0
                              THEN {LowerText(Key(block_label,
                                        BeforeGeo(row_identifier) \o Str__geo
                                        \o SubSeq(row_identifier, match + 4,
                                                  Len(row_identifier))))}
                              ELSE {})
                   ELSE {})

RECURSIVE RecordsDict(_, _)
RecordsDict(table_rows, records_dict) ==
    IF table_rows = <<>> THEN records_dict
    ELSE LET record == Head(table_rows)
         IN  RecordsDict(Tail(table_rows),
                Update(records_dict,
                       [key \in RepetableRowKeys(record.fields) |-> record.id]))

\* get_existing_repetable_rows_improved_no_filter: the index, empty when the
\* read of the records is not answered 200
GetExistingRepetableRows(table_rows, ok) ==
    IF ok THEN RecordsDict(table_rows, EmptyDict) ELSE EmptyDict

\* process_repetables_batch: the rows it leaves, the calls it issues, the
\* records it extracted and its two counters.  The updates are padded to one
\* set of field names and sent in one batch, record by record when the batch
\* fails; the creations are sent as built, in one batch.
ProcessRepetablesBatch(dossiers_data, table_rows, cols, ids, ok) ==
    LET table_id == "repetable_rows"
        extractions ==
            {Flatten([i \in 1..Len(dossiers_data) |->
                        ExtractRepetableRows(dossiers_data[i], ids, cols, existing_rows)]) :
                existing_rows \in {GetExistingRepetableRows(table_rows, ok.index)}}
        partitioned ==
            {[extracted |-> extracted,
              updates |-> NormalizeRecords(SelectSeq(extracted, LAMBDA r : r.id # 0)),
              creations |-> SelectSeq(extracted, LAMBDA r : r.id = 0)] :
                extracted \in extractions}
        start == [rows |-> table_rows,
                  calls |-> <<Call("GET records", table_id, ok.index, <<>>)>>,
                  total_success |-> 0,
                  total_errors |-> 0]
        WriteRetried(updates) ==
            IF updates = <<>> THEN start
            ELSE IF ok.batch
            THEN [rows |-> BackendPatch(start.rows, updates),
                  calls |-> Append(start.calls,
                                Call("PATCH records", table_id, TRUE, updates)),
                  total_success |-> Len(updates),
                  total_errors |-> 0]
            ELSE PatchEach(table_id, updates, ok.single,
                    [start EXCEPT !.calls =
                        Append(@, Call("PATCH records", table_id, FALSE, updates))])
        updated ==
            {[acc |-> WriteRetried(p.updates), creations |-> p.creations,
              extracted |-> p.extracted] : p \in partitioned}
    IN  CHOOSE result \in
            {[rows |-> c.acc.rows,
              calls |-> c.acc.calls,
              extracted |-> c.extracted,
              total_success |-> c.acc.total_success,
              total_errors |-> c.acc.total_errors] :
                c \in {[acc |-> WriteCreations(table_id, u.creations, ok, u.acc),
                        extracted |-> u.extracted] : u \in updated}} : TRUE

(***************************************************************************)
(* Part C.  Sync runs: process_demarche_for_grist_optimized against one    *)
(* document, run after run.  Every call to the backend is answered 200 or  *)
(* fails, at most MaxFailures times in a behaviour.                        *)
(***************************************************************************)
MaxFailures == 2
MaxRuns == 2

\* The forms of the sync runs.
SyncForms ==
    {[champs |-> <<F_Nom, F_Plan(1)>>, annotations |-> <<F_Avis>>],
     [champs |-> <<F_Nom, F_Parcelles(<<<<F_Nature, F_Zone(2)>>, <<F_Nature>>>>)>>,
      annotations |-> <<F_Avis, F_Note>>],
     [champs |-> <<F_Titre, F_Parcelles(<<<<F_Nature, F_Quote>>, <<F_Zone(1), F_Lot(1)>>>>)>>,
      annotations |-> <<>>],
     [champs |-> <<F_Parcelles(<<<<F_Nature, F_Section(2)>>, <<F_Intro, F_Nature>>>>)>>,
      annotations |-> <<F_Entete, F_Avis>>]}

\* The case lists of the sync runs.
CaseLists == {<<CaseNumber>>, <<CaseNumber, CaseNumber + 1>>}

NoColumns == [t \in GristTables |-> <<>>]
NoRows == [t \in GristTables |-> <<>>]

\* A document no sync has written to, and the document a sync of case 42 left
\* when the form had neither fields nor annotations yet.
EmptyDocument == [tables |-> {}, columns |-> NoColumns, rows |-> NoRows]

EarlierDocument ==
    [tables |-> {"dossiers", "champs", "annotations"},
     columns |-> [NoColumns EXCEPT !["dossiers"] = DossierColumns,
                                   !["champs"] = BaseChampColumns,
                                   !["annotations"] = BaseAnnotationColumns],
     rows |-> [NoRows EXCEPT
                !["dossiers"] = <<[id |-> 1,
                                   fields |-> (K_dossier_id :> <<"D">> \o NumText(CaseNumber))
                                              @@ (K_number :> CaseNumber)
                                              @@ (K_state :> <<"en_construction">>)]>>,
                !["champs"] = <<[id |-> 1, fields |-> (K_dossier_number :> CaseNumber)]>>,
                !["annotations"] = <<[id |-> 1, fields |-> (K_dossier_number :> CaseNumber)]>>]]

NoRecords == [dossiers |-> <<>>, champs |-> <<>>, annotations |-> <<>>]

NoneCounted == [success |-> 0, errors |-> 0]

\* What the history keeps of a handler.
Handled(handler, requested, incoming, calls) ==
    [handler |-> handler,
     tables |-> grist_tables,
     columns |-> grist_columns,
     rows |-> grist_rows,
     requested |-> requested,
     incoming |-> incoming,
     calls |-> calls,
     counted |-> NoneCounted]

\* What the history keeps of a handler that writes rows: its two counters too
HandledWrites(handler, requested, incoming, done) ==
    [Handled(handler, requested, incoming, done.calls) EXCEPT
        !.counted = [success |-> done.total_success, errors |-> done.total_errors]]

Nothing == [t \in GristTables |-> {}]
NoIncoming == [t \in GristTables |-> <<>>]

GristInit ==
    /\ \E form \in SyncForms, numbers \in CaseLists :
            platform = [schema |-> SchemaOf(form),
                        dossiers |-> [i \in 1..Len(numbers) |-> CaseOf(form, numbers[i])]]
    /\ \E doc \in {EmptyDocument, EarlierDocument} :
            /\ grist_tables = doc.tables
            /\ grist_columns = doc.columns
            /\ grist_rows = doc.rows
            /\ history = [handler |-> "none", tables |-> doc.tables,
                          columns |-> doc.columns, rows |-> doc.rows,
                          requested |-> Nothing, incoming |-> NoIncoming,
                          calls |-> <<>>, counted |-> NoneCounted]
    /\ batch_records = NoRecords
    /\ columns_cache = EmptyDict
    /\ run = 1
    /\ gpc = "schema"
    /\ failures = 0
    /\ first_rows = NoRows
    /\ demarche_schema = NULL
    /\ dossier_data = NULL
    /\ column_types = NULL
    /\ problematic_ids = NULL
    /\ flat_data = NULL
    /\ rep_records = NULL
    /\ fpc = "idle"
    /\ NormIdle
    /\ LaterIdle


\* The field names of a list of records
AllFieldNames(dossiers_list) ==
    UNION {DOMAIN dossiers_list[k] : k \in 1..Len(dossiers_list)}

\* The answers of ok that are failures
Refused(ok) ==
    Cardinality({f \in {"index", "columns", "batch", "create"} : ~ok[f]})
    + Cardinality({k \in DOMAIN ok.single : ~ok.single[k]})

RefusedOf(flags) == Cardinality({x \in DOMAIN flags : ~flags[x]})

\* process_demarche_for_grist_optimized: the schema of the form, cleaned by
\* the robust retrieval or as the classic retrieval gives it when the robust
\* one fails, and the column sets drawn from it
DiscoverSchema ==
    /\ gpc = "schema"
    /\ \E robust_ok \in BOOLEAN :
        \E schema \in {IF robust_ok THEN AutoCleanSchemaDescriptors(platform.schema)
                                    ELSE platform.schema} :
            /\ demarche_schema' = schema
            /\ column_types' = CreateColumnsFromSchema(schema)
            /\ problematic_ids' = GetProblematicDescriptorIdsFromSchema(schema)
    /\ gpc' = "tables"
    /\ UNCHANGED <<dossier_data, flat_data, rep_records, fpc, normVars, laterVars,
                   grist_tables, grist_columns, grist_rows, platform, batch_records,
                   columns_cache, run, history, failures, first_rows>>

\* The tables whose columns a sequence of calls reads
TablesRead(calls) ==
    {calls[i].table : i \in {j \in 1..Len(calls) : calls[j].op = "GET columns"}}

\* update_grist_tables_from_schema
UpdateGristTablesFromSchema ==
    /\ gpc = "tables"
    /\ \E get_ok \in [GristTables -> BOOLEAN], post_ok \in [GristTables -> BOOLEAN] :
        /\ failures + RefusedOf(get_ok) + RefusedOf(post_ok) <= MaxFailures
        /\ \E done \in {UpdateGristTables(column_types, grist_tables, grist_columns,
                                          get_ok, post_ok)} :
            /\ RefusedOf(get_ok) + RefusedOf(post_ok) = FailedCalls(done.calls)
            /\ failures' = failures + RefusedOf(get_ok) + RefusedOf(post_ok)
            /\ grist_tables' = done.tables
            /\ grist_columns' = done.columns
            /\ \E read \in {TablesRead(done.calls)} :
                history' = Handled("update_grist_tables_from_schema",
                                [t \in GristTables |->
                                    IF t \in read
                                    THEN ColumnIds(SchemaColumnsOf(column_types, t))
                                    ELSE {}],
                                NoIncoming, done.calls)
    /\ gpc' = "prepare"
    /\ UNCHANGED <<flatVars, normVars, laterVars, grist_rows, platform, batch_records,
                   columns_cache, run, first_rows>>

\* A flattening that never leaves the blocks out
ExcludeRepetitionNever(ct) == FALSE

\* exclude_repetition = column_types.get("has_repetable_blocks", False)
ExcludeRepetition(ct) == ct.has_repetable_blocks

\* process_demarche_for_grist_optimized, one case of the batch: it is
\* flattened, its three records are built and the id columns of its
\* annotations are added
PrepareDossier ==
    /\ gpc = "prepare"
    /\ \E dossier \in {platform.dossiers[Len(batch_records.dossiers) + 1]} :
       \E flat \in {DossierToFlatData(dossier, ExcludeRepetition(column_types),
                                      problematic_ids)} :
       \E get_ok \in BOOLEAN, post_ok \in BOOLEAN :
        /\ failures + RefusedOf(<<get_ok, post_ok>>) <= MaxFailures
        /\ \E added \in {AddIdColumnsBasedOnAnnotations(grist_columns["annotations"],
                                    flat.annotations, get_ok, post_ok)} :
            /\ RefusedOf(<<get_ok, post_ok>>) = FailedCalls(added.calls)
            /\ failures' = failures + RefusedOf(<<get_ok, post_ok>>)
            /\ grist_columns' = [grist_columns EXCEPT !["annotations"] = added.columns]
            /\ batch_records' =
                    [dossiers |-> Append(batch_records.dossiers,
                                    DossierRecord(dossier, column_types.dossier)),
                     champs |-> Append(batch_records.champs,
                                    ChampRecord(dossier.number, flat.champs,
                                                column_types.champs)),
                     annotations |-> Append(batch_records.annotations,
                                    AnnotationRecord(dossier.number, flat.annotations,
                                                     column_types.annotations))]
            /\ history' = Handled("add_id_columns_based_on_annotations",
                            [Nothing EXCEPT !["annotations"] =
                                {AnnotationColumnId(flat.annotations[k].label) \o Str__id :
                                    k \in 1..Len(flat.annotations)}],
                            NoIncoming, added.calls)
    /\ gpc' = IF Len(batch_records.dossiers) + 1 = Len(platform.dossiers)
              THEN "dossiers" ELSE "prepare"
    /\ UNCHANGED <<flatVars, normVars, laterVars, grist_tables, grist_rows, platform,
                   columns_cache, run, first_rows>>

\* process_demarche_for_grist_optimized: the records of the batch are
\* reconciled with the case table, then the field table, then the
\* annotation table
UpsertBatch ==
    /\ gpc \in {"dossiers", "champs", "annotations"}
    /\ \E ok \in UpsertAnswers(Len(batch_records[gpc])) :
        /\ failures + Refused(ok) <= MaxFailures
        /\ \E done \in {UpsertMultipleDossiersInGrist(gpc, batch_records[gpc],
                            grist_rows[gpc], grist_columns[gpc], ok)} :
            /\ Refused(ok) = FailedCalls(done.calls)
            /\ failures' = failures + Refused(ok)
            /\ grist_rows' = [grist_rows EXCEPT ![gpc] = done.rows]
            /\ history' = HandledWrites("upsert_multiple_dossiers_in_grist",
                            [Nothing EXCEPT ![gpc] = AllFieldNames(batch_records[gpc])],
                            [NoIncoming EXCEPT ![gpc] = batch_records[gpc]],
                            done)
    /\ gpc' = CASE gpc = "dossiers" -> "champs"
                [] gpc = "champs" -> "annotations"
                [] gpc = "annotations" -> "repetables"
    /\ UNCHANGED <<flatVars, normVars, laterVars, grist_tables, grist_columns, platform,
                   batch_records, columns_cache, run, first_rows>>

\* The repeatable rows a batch holds, whatever the table holds
RepetableCount(dossiers_data, ids, cols) ==
    Len(Flatten([i \in 1..Len(dossiers_data) |->
                    ExtractRepetableRows(dossiers_data[i], ids, cols, EmptyDict)]))

\* process_demarche_for_grist_optimized: the repeatable rows of the batch,
\* when the form has a repeatable block
ProcessRepetablesOfBatch ==
    /\ gpc = "repetables"
    /\ column_types.has_repetable_blocks
    /\ \E n \in {RepetableCount(platform.dossiers, problematic_ids,
                                column_types.repetable_rows)} :
       \E ok \in UpsertAnswers(n) :
        /\ failures + Refused(ok) <= MaxFailures
        /\ \E done \in {ProcessRepetablesBatch(platform.dossiers,
                            grist_rows["repetable_rows"], column_types.repetable_rows,
                            problematic_ids, ok)} :
            /\ Refused(ok) = FailedCalls(done.calls)
            /\ failures' = failures + Refused(ok)
            /\ grist_rows' = [grist_rows EXCEPT !["repetable_rows"] = done.rows]
            /\ first_rows' = IF run = 1
                             THEN [grist_rows EXCEPT !["repetable_rows"] = done.rows]
                             ELSE first_rows
            /\ history' = HandledWrites("process_repetables_batch",
                            [Nothing EXCEPT !["repetable_rows"] = AllKeys(done.extracted)],
                            [NoIncoming EXCEPT !["repetable_rows"] = done.extracted],
                            done)
    /\ gpc' = "finished"
    /\ UNCHANGED <<flatVars, normVars, laterVars, grist_tables, grist_columns, platform,
                   batch_records, columns_cache, run>>

\* process_demarche_for_grist_optimized: a form without a repeatable block
\* ends the batch after the three tables
SkipRepetables ==
    /\ gpc = "repetables"
    /\ ~column_types.has_repetable_blocks
    /\ first_rows' = IF run = 1 THEN grist_rows ELSE first_rows
    /\ gpc' = "finished"
    /\ UNCHANGED <<flatVars, normVars, laterVars, grist_tables, grist_columns, grist_rows, platform,
                   batch_records, columns_cache, run, history, failures>>

\* The next run of the sync over the same case list
NextRun ==
    /\ gpc = "finished"
    /\ run < MaxRuns
    /\ run' = run + 1
    /\ gpc' = "schema"
    /\ batch_records' = NoRecords
    /\ UNCHANGED <<flatVars, normVars, laterVars, grist_tables, grist_columns, grist_rows,
                   platform, columns_cache, history, failures, first_rows>>

Init == GristInit

Next ==
    \/ DiscoverSchema
    \/ UpdateGristTablesFromSchema
    \/ PrepareDossier
    \/ UpsertBatch
    \/ ProcessRepetablesOfBatch
    \/ SkipRepetables
    \/ NextRun

Spec == Init /\ [][Next]_vars

(***************************************************************************)
(* Reconciliation of the tables: what the last handler found and left.      *)
(***************************************************************************)

StandardTables == {"dossiers", "champs", "annotations"}

\* The rows of a table that a case number keys
KeyedBy(table_rows, n) ==
    {i \in 1..Len(table_rows) : DossierNumberOf(table_rows[i].fields) = n}

\* The case numbers of the incoming records
IncomingNumbers(incoming) ==
    {DossierNumberOf(incoming[k]) : k \in 1..Len(incoming)} \ {0}

\* The incoming records of a case number
IncomingOf(incoming, n) ==
    {k \in 1..Len(incoming) : DossierNumberOf(incoming[k]) = n}

RecordWrites == {"PATCH records", "POST records"}

\* The writes of rows among the calls were all answered
WritesAnswered(calls) ==
    \A i \in 1..Len(calls) : calls[i].op \in RecordWrites => calls[i].ok

\* An incoming record's cells are the cells of the row
CarriedBy(row_fields, record) ==
    \A k \in DOMAIN record : k \in DOMAIN row_fields => row_fields[k] = record[k]

\* C1: for the cases, fields and annotations tables, when the writes of a
\* reconciliation are answered, every incoming record whose case number keys
\* an existing row updates that row and creates no row (the number keys as
\* many rows after as before, and the indexed row holds the record's cells),
\* and every incoming record whose case number keys no existing row creates
\* exactly one row (the number keys as many rows as records came in with it).
C1_UpsertUpdatesOrCreatesOnce ==
    (history.handler = "upsert_multiple_dossiers_in_grist" /\ WritesAnswered(history.calls))
    => \A t \in StandardTables :
        \A n \in IncomingNumbers(history.incoming[t]) :
            IF KeyedBy(history.rows[t], n) # {}
            THEN /\ Cardinality(KeyedBy(grist_rows[t], n))
                        = Cardinality(KeyedBy(history.rows[t], n))
                 /\ \A k \in IncomingOf(history.incoming[t], n) :
                        \E i \in KeyedBy(history.rows[t], n) :
                            CarriedBy(grist_rows[t][i].fields, history.incoming[t][k])
            ELSE Cardinality(KeyedBy(grist_rows[t], n))
                        = Cardinality(IncomingOf(history.incoming[t], n))

\* The business key of a row: the case number in the cases, fields and
\* annotations tables; the case number, the block and the row of the block in
\* the repeatable-rows table
BusinessKey(table_id, fields) ==
    IF table_id = "repetable_rows"
    THEN <<fields[K_dossier_number], fields[K_block_label], fields[K_block_row_id]>>
    ELSE <<DossierNumberOf(fields)>>

\* The number of rows per business key
RowsPerKey(table_id, table_rows) ==
    [key \in {BusinessKey(table_id, table_rows[i].fields) : i \in 1..Len(table_rows)} |->
        Cardinality({i \in 1..Len(table_rows) :
                        BusinessKey(table_id, table_rows[i].fields) = key})]

\* C2: when two runs over the same case list have ended and every call of
\* both was answered, the second run created no row: each of the four tables
\* has as many rows, and as many rows per business key, as after the first run.
C2_SecondRunCreatesNoRow ==
    (gpc = "finished" /\ run = 2 /\ failures = 0)
    => \A t \in GristTables :
        /\ Len(grist_rows[t]) = Len(first_rows[t])
        /\ RowsPerKey(t, grist_rows[t]) = RowsPerKey(t, first_rows[t])

\* C2, its case: the second run has ended, every call answered, over a form
\* with a repeatable block, and the four tables hold rows
C2_Witness ==
    /\ gpc = "finished"
    /\ run = 2
    /\ failures = 0
    /\ column_types.has_repetable_blocks
    /\ history.handler = "process_repetables_batch"
    /\ \A t \in GristTables : Len(grist_rows[t]) > 0
    /\ Len(grist_rows["repetable_rows"]) > 1

\* A column is requested for a table before any row is written
RequestedBeforeWrite(calls, table_id, column_id) ==
    \E i \in 1..Len(calls) :
        /\ calls[i].op = "POST columns"
        /\ calls[i].table = table_id
        /\ column_id \in ColumnIds(calls[i].payload)
        /\ \A j \in 1..(i - 1) : calls[j].op \notin RecordWrites

\* C3: when an incoming record names a column the table does not have, the
\* reconciliation requests the addition of that column before it writes a
\* row, and the table has the column after the reconciliation.
C3_AbsentColumnIsAdded ==
    history.handler = "upsert_multiple_dossiers_in_grist"
    => \A t \in StandardTables :
        \A column_id \in history.requested[t] \ ColumnIds(history.columns[t]) :
            /\ RequestedBeforeWrite(history.calls, t, column_id)
            /\ column_id \in ColumnIds(grist_columns[t])

\* C4: when the table has every column a handler refers to, the handler
\* issues no call that adds columns and leaves the columns of the table as
\* they were.
C4_NoAddWhenColumnsExist ==
    \A t \in history.tables :
        (/\ history.requested[t] # {}
         /\ history.requested[t] \subseteq ColumnIds(history.columns[t]))
        => /\ \A i \in 1..Len(history.calls) :
                ~(history.calls[i].op = "POST columns" /\ history.calls[i].table = t)
           /\ grist_columns[t] = history.columns[t]

\* The calls of a handler that write rows, in the order of their issue
WriteCalls(calls) == SelectSeq(calls, LAMBDA c : c.op \in RecordWrites)

\* The batch update of a handler: its first update of rows, in the tables that
\* are updated in one batch (0 when there is none)
BatchUpdateAt(calls) ==
    IF \E i \in 1..Len(calls) : calls[i].op = "PATCH records" /\ calls[i].table # "champs"
    THEN CHOOSE i \in 1..Len(calls) :
            /\ calls[i].op = "PATCH records"
            /\ \A j \in 1..(i - 1) : calls[j].op # "PATCH records"
    ELSE 0

\* The calls after a failed batch update are one update per record of the
\* batch, in its order, each carrying that record alone
RetriedOneByOne(calls, at) ==
    /\ Len(calls) >= at + Len(calls[at].payload)
    /\ \A k \in 1..Len(calls[at].payload) :
            /\ calls[at + k].op = "PATCH records"
            /\ calls[at + k].payload = <<calls[at].payload[k]>>
    /\ \A j \in (at + Len(calls[at].payload) + 1)..Len(calls) : calls[j].op = "POST records"

\* The records counted as successes and as errors, each update retried after
\* a failed batch by its own answer and each other call by its answer for all
\* of its records
CountedByAnswer(calls, at, answered) ==
    LET Weight(j) ==
            IF j = at /\ ~calls[at].ok THEN 0
            ELSE IF calls[j].ok = answered THEN Len(calls[j].payload) ELSE 0
        Sum[j \in 0..Len(calls)] == IF j = 0 THEN 0 ELSE Sum[j - 1] + Weight(j)
    IN  Sum[Len(calls)]

\* C15: when the batch update of a reconciliation fails, every record of the
\* batch is sent again alone and counted by its own answer; when the batch
\* creation fails, no record of it is sent again and each is counted as an
\* error.
C15_RetryUpdatesNotCreations ==
    history.handler \in {"upsert_multiple_dossiers_in_grist", "process_repetables_batch"}
    => \E writes \in {WriteCalls(history.calls)} :
        \E at \in {BatchUpdateAt(writes)} :
            /\ (at # 0 /\ ~writes[at].ok) => RetriedOneByOne(writes, at)
            /\ \A j \in 1..Len(writes) :
                    (writes[j].op = "POST records" /\ ~writes[j].ok) => j = Len(writes)
            /\ history.counted.success = CountedByAnswer(writes, at, TRUE)
            /\ history.counted.errors = CountedByAnswer(writes, at, FALSE)

\* C15, its case: a batch update of two records failed, the two records were
\* sent again one by one, one answered and one refused
C15_Witness ==
    /\ history.handler \in {"upsert_multiple_dossiers_in_grist", "process_repetables_batch"}
    /\ \E writes \in {WriteCalls(history.calls)} :
        /\ Len(writes) >= 3
        /\ writes[1].op = "PATCH records"
        /\ writes[1].table # "champs"
        /\ ~writes[1].ok
        /\ Len(writes[1].payload) = 2
        /\ writes[2].ok # writes[3].ok
    /\ history.counted = [success |-> 1, errors |-> 1]

\* The records of a write all have the same field names
UniformPayload(payload) ==
    \A a \in 1..Len(payload), b \in 1..Len(payload) :
        DOMAIN payload[a].fields = DOMAIN payload[b].fields

\* The part of C25 on the updates of every table and on the creations of the
\* cases, fields and annotations tables
UniformPaddedWrites ==
    \A i \in 1..Len(history.calls) :
        (/\ history.calls[i].op \in RecordWrites
         /\ ~(history.calls[i].op = "POST records"
              /\ history.calls[i].table = "repetable_rows"))
        => UniformPayload(history.calls[i].payload)

\* C25: every write of rows a handler issues, update or creation, in any of
\* the four tables, carries records that all have the same field names.
C25_UniformFieldSets ==
    \A i \in 1..Len(history.calls) :
        history.calls[i].op \in RecordWrites
        => UniformPayload(history.calls[i].payload)

\* The field names of the records of the writes of rows are among ids
WrittenWithin(calls, ids) ==
    \A i \in 1..Len(calls) :
        calls[i].op \in RecordWrites
        => \A k \in 1..Len(calls[i].payload) :
                DOMAIN calls[i].payload[k].fields \subseteq ids

\* The part of C24 on the reconciliation of the cases, fields and annotations
\* tables when its read of the columns is answered: the records keep the
\* columns of the table, and dossier_number
FilteredWhenColumnsRead ==
    (/\ history.handler = "upsert_multiple_dossiers_in_grist"
     /\ \A i \in 1..Len(history.calls) :
            history.calls[i].op = "GET columns" => history.calls[i].ok)
    => \A t \in StandardTables :
        WrittenWithin(SelectSeq(history.calls, LAMBDA c : c.table = t),
                      ColumnIds(grist_columns[t]) \cup {K_dossier_number})

\* C24: every record of a write of rows, in any of the four tables, names
\* only columns the table has when the write is issued.
C24_RowsHoldExistingColumns ==
    history.handler \in {"upsert_multiple_dossiers_in_grist", "process_repetables_batch"}
    => \A t \in GristTables :
        WrittenWithin(SelectSeq(history.calls, LAMBDA c : c.table = t),
                      ColumnIds(grist_columns[t]))

\* The read of the row index of a handler was refused
IndexReadFailed(calls) ==
    \E i \in 1..Len(calls) : calls[i].op = "GET records" /\ ~calls[i].ok

\* The business keys of the rows of a table
KeysOf(table_id, table_rows) ==
    {BusinessKey(table_id, table_rows[i].fields) : i \in 1..Len(table_rows)}

\* The business keys of the records a handler asks to create
CreatedKeys(calls, table_id) ==
    UNION {{BusinessKey(table_id, calls[i].payload[k].fields) :
                k \in 1..Len(calls[i].payload)} :
            i \in {j \in 1..Len(calls) :
                        calls[j].op = "POST records" /\ calls[j].table = table_id}}

\* With the index read answered, a handler asks to create no record whose
\* business key has a row
NoDuplicateWhenIndexRead ==
    (/\ history.handler \in {"upsert_multiple_dossiers_in_grist",
                              "process_repetables_batch"}
     /\ ~IndexReadFailed(history.calls))
    => \A t \in GristTables :
        CreatedKeys(history.calls, t) \cap KeysOf(t, history.rows[t]) = {}

\* C29: when the read of the row index of a reconciliation fails, the
\* handler asks to create no record whose business key already has a row in
\* the table.
C29_FailedIndexCreatesNoDuplicate ==
    (/\ history.handler \in {"upsert_multiple_dossiers_in_grist",
                              "process_repetables_batch"}
     /\ IndexReadFailed(history.calls))
    => \A t \in GristTables :
        CreatedKeys(history.calls, t) \cap KeysOf(t, history.rows[t]) = {}

(***************************************************************************)
(* Part D.  Column type inference: determine_column_type on a descriptor   *)
(* of the schema and the detection on a field instance of a repeatable row.*)
(***************************************************************************)

\* The keys of type_mapping, the two presentational kinds, one kind the
\* mapping does not know and a descriptor without a type
ChampTypes ==
    {"text", "textarea", "email", "phone", "number", "integer_number",
     "decimal_number", "date", "datetime", "yes_no", "checkbox",
     "drop_down_list", "multiple_drop_down_list", "linked_drop_down_list",
     "piece_justificative", "iban", "siret", "rna", "titre_identite",
     "address", "commune", "departement", "region", "pays", "carte",
     "repetition", "header_section", "explication", "epci", NULL}

\* The __typename of the field instances
ChampTypenames ==
    {"TextChamp", "DateChamp", "DatetimeChamp", "DecimalNumberChamp",
     "IntegerNumberChamp", "CheckboxChamp", "YesNoChamp", "CarteChamp",
     "AddressChamp", "PieceJustificativeChamp"}

\* explore_champs of detect_repetable_columns_in_dossier: the type of the
\* column of a field instance
DetectColumnType(typename) ==
    CASE typename \in {"DateChamp", "DatetimeChamp"} -> "DateTime"
      [] typename = "DecimalNumberChamp" -> "Numeric"
      [] typename = "IntegerNumberChamp" -> "Int"
      [] typename \in {"CheckboxChamp", "YesNoChamp"} -> "Bool"
      [] OTHER -> "Text"

TypeInit ==
    /\ descriptor \in [type : ChampTypes, typename : ChampTypenames]
    /\ schema_type = NULL
    /\ detected_type = NULL
    /\ tpc = "descriptor"
    /\ NormIdle
    /\ FlatIdle
    /\ GristIdle
    /\ FilterIdle
    /\ RunIdle
    /\ LastIdle

\* create_columns_from_schema on one descriptor
DetermineTypeOfDescriptor ==
    /\ tpc = "descriptor"
    /\ schema_type' = DetermineColumnType(descriptor.type)
    /\ tpc' = "instance"
    /\ UNCHANGED <<descriptor, detected_type, normVars, lastVars, flatVars, gristVars, filterVars, runVars>>

\* detect_repetable_columns_in_dossier on one instance of it
DetectTypeOfInstance ==
    /\ tpc = "instance"
    /\ detected_type' = DetectColumnType(descriptor.typename)
    /\ tpc' = "done"
    /\ UNCHANGED <<descriptor, schema_type, normVars, lastVars, flatVars, gristVars, filterVars, runVars>>

TypeNext ==
    \/ DetermineTypeOfDescriptor
    \/ DetectTypeOfInstance

SpecTypes == TypeInit /\ [][TypeNext]_vars

\* The type the mapping is meant to give a kind
InferredType(kind) ==
    CASE kind \in {"date", "datetime"} -> "DateTime"
      [] kind = "decimal_number" -> "Numeric"
      [] kind = "integer_number" -> "Int"
      [] kind \in {"checkbox", "yes_no"} -> "Bool"
      [] OTHER -> "Text"

\* The kind of the descriptor of an instance
KindOfTypename(typename) ==
    CASE typename = "DateChamp" -> "date"
      [] typename = "DatetimeChamp" -> "datetime"
      [] typename = "DecimalNumberChamp" -> "decimal_number"
      [] typename = "IntegerNumberChamp" -> "integer_number"
      [] typename = "CheckboxChamp" -> "checkbox"
      [] typename = "YesNoChamp" -> "yes_no"
      [] typename = "CarteChamp" -> "carte"
      [] typename = "AddressChamp" -> "address"
      [] typename = "PieceJustificativeChamp" -> "piece_justificative"
      [] OTHER -> "text"

\* C19: the inference of a column type from a descriptor always answers, and
\* answers DateTime for the date and datetime kinds, Numeric for decimal, Int
\* for integer, Bool for checkbox and yes/no, and Text for every other kind.
C19_TypeInferenceIsTotal ==
    /\ tpc \in {"instance", "done"} => schema_type = InferredType(descriptor.type)
    /\ tpc = "done" => detected_type = InferredType(KindOfTypename(descriptor.typename))

(***************************************************************************)
(* Part E.  The retrieval of the cases of a form under the configured      *)
(* filters: process_demarche_for_grist_optimized and                       *)
(* get_demarche_dossiers_filtered.  A deposit date is its day.             *)
(***************************************************************************)
MaxDay == 3

FilterKeys == {"date_debut", "date_fin", "groupes_instructeurs", "statuts"}

\* The value a configured filter holds
FilterValue(k) ==
    CASE k = "date_debut" -> 2
      [] k = "date_fin" -> 2
      [] k = "groupes_instructeurs" -> {NumText(1)}
      [] k = "statuts" -> {"accepte"}

\* The filter blocks: any subset of the four filters
FilterBlocks == {[k \in S |-> FilterValue(k)] : S \in SUBSET FilterKeys}

NoFilters == [k \in {} |-> 0]

\* dict.get(k) is truthy
Configured(filters, k) == k \in DOMAIN filters

\* The cases the platform can list: deposit day, instructor group, state
ListedCases ==
    [dateDepot : 1..MaxDay,
     groupeInstructeur : {[number |-> 1, id |-> <<"G", "1">>],
                          [number |-> 2, id |-> <<"G", "2">>]},
     state : {"en_construction", "accepte"}]

NumberedCases(d1, d2) ==
    <<[number |-> 1, dateDepot |-> d1.dateDepot, state |-> d1.state,
       groupeInstructeur |-> d1.groupeInstructeur],
      [number |-> 2, dateDepot |-> d2.dateDepot, state |-> d2.state,
       groupeInstructeur |-> d2.groupeInstructeur]>>

\* The platform answers the listing query: with createdSince, the cases
\* deposited since that date
ListDossiers(dossiers, variables) ==
    IF "createdSince" \in DOMAIN variables
    THEN SelectSeq(dossiers, LAMBDA d : d.dateDepot >= variables["createdSince"])
    ELSE dossiers

\* get_demarche_dossiers_filtered: server_filters
ServerFilters(filters) ==
    IF Configured(filters, "date_debut")
    THEN [k \in {"createdSince"} |-> filters["date_debut"]]
    ELSE NoFilters

\* get_demarche_dossiers_filtered: the loop over the listed cases
KeptByClientFilters(d, client_filters) ==
    /\ Configured(client_filters, "date_fin")
            => ~(d.dateDepot > client_filters["date_fin"])
    /\ Configured(client_filters, "groupes_instructeurs")
            => \/ NumText(d.groupeInstructeur.number)
                        \in client_filters["groupes_instructeurs"]
               \/ d.groupeInstructeur.id \in client_filters["groupes_instructeurs"]
    /\ Configured(client_filters, "statuts")
            => d.state \in client_filters["statuts"]

GetDemarcheDossiersFiltered(dossiers, filters) ==
    LET client_filters == [k \in (DOMAIN filters) \ {"date_debut"} |-> filters[k]]
        listed == ListDossiers(dossiers, ServerFilters(filters))
    IN  IF DOMAIN client_filters = {} THEN listed
        ELSE SelectSeq(listed, LAMBDA d : KeptByClientFilters(d, client_filters))

\* process_demarche_for_grist_optimized: the filtering of the classic
\* retrieval by the filters of the environment variables
KeptByEnvironFilters(d, env) ==
    /\ Configured(env, "statuts") => d.state \in env["statuts"]
    /\ Configured(env, "groupes_instructeurs")
            => NumText(d.groupeInstructeur.number) \in env["groupes_instructeurs"]
    /\ Configured(env, "date_debut") => ~(d.dateDepot < env["date_debut"])
    /\ Configured(env, "date_fin") => ~(d.dateDepot > env["date_fin"])

FilterInit ==
    /\ api_filters \in FilterBlocks
    /\ environ \in {api_filters, NoFilters}
    /\ \E d1, d2 \in ListedCases : demarche_dossiers = NumberedCases(d1, d2)
    /\ server_filters = NULL
    /\ filtered_dossiers = NULL
    /\ fetched = {}
    /\ qpc = "list"
    /\ NormIdle
    /\ FlatIdle
    /\ GristIdle
    /\ TypeIdle
    /\ RunIdle
    /\ LastIdle

\* process_demarche_for_grist_optimized: the filtered retrieval is under
\* "if api_filters.get('date_fin')", the classic one under its else
RetrieveDossiers ==
    /\ qpc = "list"
    /\ \E kept \in {IF Configured(api_filters, "date_fin")
                    THEN GetDemarcheDossiersFiltered(demarche_dossiers, api_filters)
                    ELSE SelectSeq(ListDossiers(demarche_dossiers, NoFilters),
                                   LAMBDA d : KeptByEnvironFilters(d, environ))} :
            /\ filtered_dossiers' = kept
            /\ qpc' = IF Len(kept) = 0 THEN "done" ELSE "fetch"
    /\ server_filters' = IF Configured(api_filters, "date_fin")
                         THEN ServerFilters(api_filters)
                         ELSE NoFilters
    /\ UNCHANGED <<api_filters, environ, demarche_dossiers, fetched,
                   normVars, lastVars, flatVars, gristVars, typeVars, runVars>>

\* The batches: the kept cases are fetched one after the other
FetchDossier ==
    /\ qpc = "fetch"
    /\ \E i \in {Cardinality(fetched) + 1} :
            /\ fetched' = fetched \cup {filtered_dossiers[i].number}
            /\ qpc' = IF i = Len(filtered_dossiers) THEN "done" ELSE "fetch"
    /\ UNCHANGED <<api_filters, environ, demarche_dossiers, server_filters,
                   filtered_dossiers, normVars, lastVars, flatVars, gristVars, typeVars, runVars>>

FilterNext ==
    \/ RetrieveDossiers
    \/ FetchDossier

SpecFilter == FilterInit /\ [][FilterNext]_vars

\* Whether a case satisfies every filter of a block
SatisfiesFilters(d, filters) ==
    /\ Configured(filters, "date_debut") => d.dateDepot >= filters["date_debut"]
    /\ Configured(filters, "date_fin") => d.dateDepot <= filters["date_fin"]
    /\ Configured(filters, "groupes_instructeurs")
            => NumText(d.groupeInstructeur.number) \in filters["groupes_instructeurs"]
    /\ Configured(filters, "statuts") => d.state \in filters["statuts"]

\* C14: every case a run fetches satisfies all the configured filters,
\* whichever of them are configured, and nothing but the lower bound of the
\* deposit date is sent to the platform.
C14_FetchedSatisfyFilters ==
    qpc \in {"fetch", "done"} =>
        /\ DOMAIN server_filters \subseteq {"createdSince"}
        /\ \A i \in 1..Len(demarche_dossiers) :
                demarche_dossiers[i].number \in fetched
                    => SatisfiesFilters(demarche_dossiers[i], api_filters)

(***************************************************************************)
(* Part F.  One run of process_demarche_for_grist_optimized: the schema    *)
(* step and its fallback on sampled cases, the list of the cases, their    *)
(* fetch batch by batch (one after the other or by the workers of          *)
(* fetch_dossiers_in_parallel), the three upserts of each batch and the    *)
(* result of the run.                                                      *)
(***************************************************************************)
MaxRunFaults == 2
BatchSize == 2
SampleSize == 3

\* The form of the runs: one field, one annotation, no repeatable block
RunForm == [champs |-> <<F_Nom>>, annotations |-> <<F_Avis>>]

RunNumbers == {1, 2, 3}

\* A case is answered in full, not at all (authorization scoping: get_dossier
\* returns an empty dict) or in part (its usager is null)
CaseKinds == {"ok", "empty", "partial"}

RunCase(n, kind) ==
    LET c == CaseOf(RunForm, n)
    IN  [id |-> c.id, number |-> c.number, state |-> c.state,
         champs |-> c.champs, annotations |-> c.annotations,
         usager |-> IF kind = "partial" THEN NULL ELSE "usager"]

\* A case as the listing of the form gives it
BriefCase(n) ==
    [number |-> n,
     state |-> IF n = 3 THEN "accepte" ELSE "en_construction",
     dateDepot |-> 1,
     groupeInstructeur |-> [number |-> 1, id |-> <<"G", "1">>]]

\* The filter block of a run that keeps the accepted cases
RunStateFilter ==
    [k \in {"date_fin", "statuts"} |->
        IF k = "date_fin" THEN MaxDay ELSE {"accepte"}]

\* get_dossier(n) is falsy
Inaccessible(n) == n \in platform.inaccessible

GetDossier(n) == platform.dossiers[n]

\* dossier_to_flat_data raises on
\* dossier_data.get("usager", {}).get("email") when usager is null
FlattenRaises(dossier) == dossier.usager = NULL

NoWorkers == [n \in {} |-> "queued"]

NoTrace ==
    [fetches |-> [n \in RunNumbers |-> 0],
     batches |-> {},
     writes |-> {},
     case_writes |-> 0,
     abort |-> "none",
     discovery |-> "none",
     sample_raised |-> FALSE,
     sampling |-> "none"]

RunInit ==
    /\ \E kinds \in [RunNumbers -> CaseKinds] :
            platform = [schema |-> SchemaOf(RunForm),
                        dossiers |-> [n \in RunNumbers |-> RunCase(n, kinds[n])],
                        inaccessible |-> {n \in RunNumbers : kinds[n] = "empty"}]
    /\ demarche_dossiers = <<BriefCase(1), BriefCase(2), BriefCase(3)>>
    /\ api_filters \in {NoFilters, RunStateFilter}
    /\ environ = NoFilters
    /\ server_filters = NoFilters
    /\ filtered_dossiers = <<>>
    /\ fetched = {}
    /\ qpc = "idle"
    /\ run_options \in [parallel : BOOLEAN, batch_size : {BatchSize}]
    /\ grist_tables = {}
    /\ grist_columns = NoColumns
    /\ grist_rows = NoRows
    /\ batch_records = NoRecords
    /\ columns_cache = EmptyDict
    /\ run = 1
    /\ gpc = "idle"
    /\ history = NULL
    /\ failures = 0
    /\ first_rows = NULL
    /\ demarche_schema = NULL
    /\ dossier_data = NULL
    /\ column_types = NULL
    /\ problematic_ids = {}
    /\ flat_data = NULL
    /\ rep_records = NULL
    /\ fpc = "idle"
    /\ NormIdle
    /\ TypeIdle
    /\ LastIdle
    /\ schema_method_successful = FALSE
    /\ successful_dossiers = {}
    /\ failed_dossiers = {}
    /\ batch_idx = 0
    /\ batch_dossiers_dict = <<>>
    /\ workers = NoWorkers
    /\ run_result = NULL
    /\ run_trace = NoTrace
    /\ rpc = "discover"

\* The retrieval of the schema and the column sets drawn from it; when it
\* raises the run goes on without column sets
DiscoverRunSchema ==
    /\ rpc = "discover"
    /\ \E schema_ok \in BOOLEAN :
        /\ failures + (IF schema_ok THEN 0 ELSE 1) <= MaxRunFaults
        /\ failures' = failures + (IF schema_ok THEN 0 ELSE 1)
        /\ schema_method_successful' = schema_ok
        /\ IF schema_ok
           THEN \E schema \in {AutoCleanSchemaDescriptors(platform.schema)} :
                    /\ demarche_schema' = schema
                    /\ column_types' = CreateColumnsFromSchema(schema)
                    /\ problematic_ids' = GetProblematicDescriptorIdsFromSchema(schema)
           ELSE UNCHANGED <<demarche_schema, column_types, problematic_ids>>
        /\ run_trace' = [run_trace EXCEPT
                            !.discovery = IF schema_ok THEN "ok" ELSE "failed"]
    /\ rpc' = "tables"
    /\ UNCHANGED <<dossier_data, flat_data, rep_records, fpc, normVars, lastVars, typeVars,
                   filterVars, grist_tables, grist_columns, grist_rows, platform,
                   batch_records, columns_cache, run, gpc, history, first_rows,
                   run_options, successful_dossiers, failed_dossiers, batch_idx,
                   batch_dossiers_dict, workers, run_result>>

\* get_problematic_descriptor_ids: the ids of the header and explanation
\* descriptors among the field descriptors of the form
GetProblematicDescriptorIds(schema) ==
    {schema.champDescriptors[i].id :
        i \in {k \in 1..Len(schema.champDescriptors) :
                IsProblematicDescriptor(schema.champDescriptors[k])}}

\* detect_column_types_from_multiple_dossiers.determine_column_type(value)
ValueColumnType(value) ==
    IF value = None THEN "Text"
    ELSE IF \E i \in 1..Len(value) : value[i] \in {"-", "T", ":"} THEN "DateTime"
    ELSE "Text"

\* The loops over flat_data["champs"] and flat_data["annotations"]: the
\* first type seen for a column id is kept
RECURSIVE UniqueColumns(_, _, _, _)
UniqueColumns(entries, table, ids, cols) ==
    IF entries = <<>> THEN cols
    ELSE LET entry == Head(entries)
         IN  UniqueColumns(Tail(entries), table, ids,
                IF entry.type \in ProblematicTypenames \/ entry.id \in ids THEN cols
                ELSE AddColumn(cols, SchemaColumnId(table, entry.label),
                               ValueColumnType(entry.value)))

\* check_for_repetable_and_carto
HasRepetitionChamp(champs) ==
    \E i \in 1..Len(champs) : champs[i].typename = "RepetitionChamp"

HasCarteChamp(champs) ==
    \E i \in 1..Len(champs) :
        \/ champs[i].typename = "CarteChamp"
        \/ /\ champs[i].typename = "RepetitionChamp"
           /\ \E r \in 1..Len(champs[i].rows) :
                \E j \in 1..Len(champs[i].rows[r].champs) :
                    champs[i].rows[r].champs[j].typename = "CarteChamp"

\* The loop over the sampled cases; it stops at the first case after which
\* both a repeatable block and a map field have been seen
RECURSIVE DetectLoop(_, _, _)
DetectLoop(dossiers_data, ids, acc) ==
    IF dossiers_data = <<>> THEN acc
    ELSE LET dossier == Head(dossiers_data)
             flat == DossierToFlatData(dossier, TRUE, ids)
             in_champs == [rep |-> acc.rep \/ HasRepetitionChamp(dossier.champs),
                           carto |-> acc.carto \/ HasCarteChamp(dossier.champs)]
             seen == IF in_champs.rep /\ in_champs.carto THEN in_champs
                     ELSE [rep |-> in_champs.rep \/ HasRepetitionChamp(dossier.annotations),
                           carto |-> in_champs.carto \/ HasCarteChamp(dossier.annotations)]
             next == [champs |-> UniqueColumns(flat.champs, "champs", ids, acc.champs),
                      annotations |-> UniqueColumns(flat.annotations, "annotations", {},
                                                    acc.annotations),
                      rep |-> seen.rep,
                      carto |-> seen.carto]
         IN  IF next.rep /\ next.carto THEN next
             ELSE DetectLoop(Tail(dossiers_data), ids, next)

\* The typenames whose column comes with a "_json" column
RpComplexTypenames ==
    {"CarteChamp", "AddressChamp", "SiretChamp", "LinkedDropDownListChamp",
     "MultipleDropDownListChamp", "PieceJustificativeChamp", "CommuneChamp",
     "RNFChamp"}

\* explore_champs, the loop over the fields of the rows of a block:
\* found_columns keeps the first type seen for a label
RECURSIVE ExploreRowFields(_, _)
ExploreRowFields(fields, found_columns) ==
    IF fields = <<>> THEN found_columns
    ELSE LET field == Head(fields)
             normalized_label == RpNormalizeColumnName(field.label, RpDefaultMaxLength)
             with_column == AddColumn(found_columns, normalized_label,
                                      DetectColumnType(field.typename))
             with_json == IF field.typename \in RpComplexTypenames
                          THEN AddColumn(with_column, normalized_label \o Str__json, "Text")
                          ELSE with_column
         IN  ExploreRowFields(Tail(fields),
                IF ShouldSkipField(field, {}) \/ LowerText(normalized_label) \in RpBlacklist
                THEN found_columns
                ELSE with_json)

\* explore_champs
RECURSIVE ExploreChamps(_, _)
ExploreChamps(champs, found_columns) ==
    IF champs = <<>> THEN found_columns
    ELSE LET champ == Head(champs)
         IN  ExploreChamps(Tail(champs),
                IF champ.typename = "RepetitionChamp"
                THEN ExploreRowFields(
                        Flatten([r \in 1..Len(champ.rows) |-> champ.rows[r].champs]),
                        found_columns)
                ELSE found_columns)

\* repetable_processor.detect_repetable_columns_in_dossier
DetectRepetableColumnsInDossier(dossier) ==
    AddColumns(BaseRepetableColumns \o GeoColumns,
               ExploreChamps(dossier.annotations,
                             ExploreChamps(dossier.champs, <<>>)))

\* The priority between the type all_columns holds and the type of a later
\* case
PrioritizeType(existing_type, col_type) ==
    IF existing_type = "Text" /\ col_type # "Text" THEN col_type
    ELSE IF existing_type = "Int" /\ col_type \in {"Numeric", "DateTime"} THEN col_type
    ELSE existing_type

\* The loop over the columns of one case
RECURSIVE MergeColumns(_, _)
MergeColumns(all_columns, columns) ==
    IF columns = <<>> THEN all_columns
    ELSE LET col == Head(columns)
         IN  MergeColumns(
                IF LowerText(col.id) \in RpBlacklist THEN all_columns
                ELSE IF col.id \in ColumnIds(all_columns)
                THEN [i \in 1..Len(all_columns) |->
                        IF all_columns[i].id = col.id
                        THEN Col(col.id, PrioritizeType(all_columns[i].type, col.type))
                        ELSE all_columns[i]]
                ELSE Append(all_columns, col),
                Tail(columns))

RECURSIVE MergeDossiers(_, _)
MergeDossiers(all_columns, dossiers_data) ==
    IF dossiers_data = <<>> THEN all_columns
    ELSE MergeDossiers(MergeColumns(all_columns,
                                    DetectRepetableColumnsInDossier(Head(dossiers_data))),
                       Tail(dossiers_data))

\* repetable_processor.detect_repetable_columns_from_multiple_dossiers
DetectRepetableColumnsFromMultipleDossiers(dossiers_data) ==
    AddColumns(MergeDossiers(<<>>, dossiers_data),
               <<Col(K_field_name, "Text")>> \o GeoColumns)

\* detect_column_types_from_multiple_dossiers
DetectColumnTypesFromMultipleDossiers(dossiers_data, ids) ==
    LET acc == DetectLoop(dossiers_data, ids,
                    [champs |-> <<>>, annotations |-> <<>>,
                     rep |-> FALSE, carto |-> FALSE])
    IN  [dossier |-> DossierColumns,
         champs |-> <<Col(K_dossier_number, "Int")>> \o acc.champs,
         annotations |-> <<Col(K_dossier_number, "Int")>> \o acc.annotations,
         repetable_rows |-> IF acc.rep
                            THEN DetectRepetableColumnsFromMultipleDossiers(dossiers_data)
                            ELSE <<>>,
         has_repetable_blocks |-> acc.rep,
         has_carto_fields |-> acc.carto]

\* The sampling of the fallback: the first cases of the list of the form are
\* fetched; raised holds the cases whose fetch raises
SampleDossiers(all_dossiers_brief, raised) ==
    LET sample_size == IF Len(all_dossiers_brief) < SampleSize
                       THEN Len(all_dossiers_brief) ELSE SampleSize
        sample_dossier_numbers == [i \in 1..sample_size |-> all_dossiers_brief[i].number]
        answered == SelectSeq(sample_dossier_numbers, LAMBDA n : ~Inaccessible(n))
    IN  IF \E i \in 1..sample_size : sample_dossier_numbers[i] \in raised
        THEN [raised |-> TRUE, dossiers |-> <<>>]
        ELSE [raised |-> FALSE,
              dossiers |-> [i \in 1..Len(answered) |-> GetDossier(answered[i])]]

\* A fallback that gives up at once
FallbackColumnTypesNone(sampled, ids) ==
    [aborted |-> TRUE, column_types |-> NULL]

\* The fallback of the schema step: the run returns False when the sampling
\* raises or yields no case, and the exception of a sampled case that cannot
\* be flattened ends the run too; else the column sets are those of the samples
FallbackColumnTypes(sampled, ids) ==
    IF \/ sampled.raised
       \/ Len(sampled.dossiers) = 0
       \/ \E i \in 1..Len(sampled.dossiers) : FlattenRaises(sampled.dossiers[i])
    THEN [aborted |-> TRUE, column_types |-> NULL]
    ELSE [aborted |-> FALSE,
          column_types |-> DetectColumnTypesFromMultipleDossiers(sampled.dossiers, ids)]

\* GristClient.create_or_clear_grist_tables: a table the document lacks is
\* created with its columns, a table it has is left as it is; the
\* repeatable-rows table, for a form with a repeatable block, is created with
\* its four base columns and given the others, or given those it lacks
CreateOrClearGristTables(ct, doc_tables, doc_columns) ==
    LET Made(t) ==
            IF t = "repetable_rows"
            THEN IF ~ct.has_repetable_blocks
                 THEN [exists |-> t \in doc_tables, columns |-> doc_columns[t],
                       calls |-> <<>>]
                 ELSE LET wanted == IF ct.has_carto_fields
                                    THEN AddColumns(ct.repetable_rows, GeoColumns)
                                    ELSE ct.repetable_rows
                          had == IF t \in doc_tables THEN doc_columns[t]
                                 ELSE RepetableCreationColumns
                          missing == SelectSeq(wanted,
                                        LAMBDA col : col.id \notin ColumnIds(had))
                      IN  [exists |-> TRUE,
                           columns |-> BackendAddColumns(had, missing),
                           calls |->
                                (IF t \in doc_tables
                                 THEN <<Call("GET columns", t, TRUE, <<>>)>>
                                 ELSE <<Call("POST tables", t, TRUE,
                                             RepetableCreationColumns)>>)
                                \o (IF missing = <<>> THEN <<>>
                                    ELSE <<Call("POST columns", t, TRUE, missing)>>)]
            ELSE IF t \in doc_tables
            THEN [exists |-> TRUE, columns |-> doc_columns[t], calls |-> <<>>]
            ELSE [exists |-> TRUE, columns |-> SchemaColumnsOf(ct, t),
                  calls |-> <<Call("POST tables", t, TRUE, SchemaColumnsOf(ct, t))>>]
    IN  CHOOSE result \in
            {[tables |-> {t \in GristTables : done[t].exists},
              columns |-> [t \in GristTables |-> done[t].columns],
              calls |-> done["dossiers"].calls \o done["champs"].calls
                        \o done["annotations"].calls \o done["repetable_rows"].calls] :
                done \in {[t \in GristTables |-> Made(t)]}} : TRUE

AllAnswered == [t \in GristTables |-> TRUE]

\* The tables of the run: update_grist_tables_from_schema with the column
\* sets of the schema; without them it raises at once and the run samples
\* cases, detects the column sets from them and calls
\* create_or_clear_grist_tables
PrepareRunTables ==
    /\ rpc = "tables"
    /\ IF schema_method_successful
       THEN \E done \in {UpdateGristTables(column_types, grist_tables, grist_columns,
                                           AllAnswered, AllAnswered)} :
                /\ grist_tables' = done.tables
                /\ grist_columns' = done.columns
                /\ rpc' = "list"
                /\ UNCHANGED <<column_types, problematic_ids, failures, run_result,
                               run_trace>>
       ELSE \E raised \in {{}} \cup {{n} : n \in RunNumbers} :
                /\ failures + Cardinality(raised) <= MaxRunFaults
                /\ failures' = failures + Cardinality(raised)
                /\ \E ids \in {GetProblematicDescriptorIds(platform.schema)} :
                   \E fb \in {FallbackColumnTypes(
                                SampleDossiers(demarche_dossiers, raised), ids)} :
                    /\ problematic_ids' = ids
                    /\ IF fb.aborted
                       THEN /\ run_result' = "False"
                            /\ rpc' = "done"
                            /\ run_trace' = [run_trace EXCEPT !.sampling = "failed",
                                                              !.sample_raised = raised # {},
                                                              !.abort = "sampling"]
                            /\ UNCHANGED <<column_types, grist_tables, grist_columns>>
                       ELSE \E made \in {CreateOrClearGristTables(fb.column_types,
                                            grist_tables, grist_columns)} :
                            /\ column_types' = fb.column_types
                            /\ grist_tables' = made.tables
                            /\ grist_columns' = made.columns
                            /\ rpc' = "list"
                            /\ run_trace' = [run_trace EXCEPT !.sampling = "ok",
                                                              !.sample_raised = raised # {}]
                            /\ UNCHANGED run_result
    /\ UNCHANGED <<demarche_schema, dossier_data, flat_data, rep_records, fpc,
                   normVars, lastVars, typeVars, filterVars, grist_rows, platform,
                   batch_records, columns_cache, run, gpc, history, first_rows,
                   run_options, schema_method_successful, successful_dossiers,
                   failed_dossiers, batch_idx, batch_dossiers_dict, workers>>

MaxWorkers == 2

\* The batches: batch k holds the numbers of the kept cases
\* (k-1)*batch_size+1 .. k*batch_size
BatchCount(kept, batch_size) == (Len(kept) + batch_size - 1) \div batch_size

BatchOf(kept, batch_size, k) ==
    LET first == (k - 1) * batch_size + 1
        last == IF k * batch_size < Len(kept) THEN k * batch_size ELSE Len(kept)
    IN  [i \in 1..(last - first + 1) |-> kept[first + i - 1].number]

CurrentBatch == BatchOf(filtered_dossiers, run_options.batch_size, batch_idx)

\* "return total_success > 0 or schema_method_successful"
RunResultOf(successful, schema_ok) ==
    IF Cardinality(successful) > 0 \/ schema_ok THEN "True" ELSE "False"

\* The cases kept of a list: the filtered retrieval when the filter block
\* has an upper date bound, else the classic one
KeptDossiers(listed) ==
    IF Configured(api_filters, "date_fin")
    THEN GetDemarcheDossiersFiltered(listed, api_filters)
    ELSE SelectSeq(ListDossiers(listed, NoFilters),
                   LAMBDA d : KeptByEnvironFilters(d, environ))

\* The list of the cases of the form under the filters of the run; no case:
\* the run returns True
ListRunDossiers ==
    /\ rpc = "list"
    /\ \E kept \in {KeptDossiers(demarche_dossiers)} :
            /\ filtered_dossiers' = kept
            /\ IF Len(kept) = 0
               THEN /\ run_result' = "True"
                    /\ rpc' = "done"
                    /\ batch_idx' = batch_idx
               ELSE /\ run_result' = run_result
                    /\ rpc' = "fetch"
                    /\ batch_idx' = 1
    /\ server_filters' = IF Configured(api_filters, "date_fin")
                         THEN ServerFilters(api_filters)
                         ELSE NoFilters
    /\ UNCHANGED <<normVars, lastVars, flatVars, gristVars, typeVars, api_filters, environ,
                   demarche_dossiers, fetched, qpc, run_options,
                   schema_method_successful, successful_dossiers, failed_dossiers,
                   batch_dossiers_dict, workers, run_trace>>

\* The end of a batch: the next batch, or the end of the run and its result
EndOfBatch(successful) ==
    IF batch_idx < BatchCount(filtered_dossiers, run_options.batch_size)
    THEN /\ batch_idx' = batch_idx + 1
         /\ rpc' = "fetch"
         /\ run_result' = run_result
    ELSE /\ batch_idx' = batch_idx
         /\ rpc' = "done"
         /\ run_result' = RunResultOf(successful, schema_method_successful)

\* The cases of a batch that were fetched once more
Fetched(trace, numbers) ==
    [trace EXCEPT !.fetches = [n \in RunNumbers |->
                                IF n \in numbers THEN @[n] + 1 ELSE @[n]]]

\* The batch is fetched case after case by the run itself: a case that
\* get_dossier answers with nothing is left out, an exception of get_dossier
\* ends the run
FetchBatchInSequence ==
    /\ rpc = "fetch"
    /\ ~run_options.parallel
    /\ \E batch \in {CurrentBatch} :
       \E raised \in {0} \cup {batch[i] : i \in 1..Len(batch)} :
        /\ failures + (IF raised = 0 THEN 0 ELSE 1) <= MaxRunFaults
        /\ failures' = failures + (IF raised = 0 THEN 0 ELSE 1)
        /\ IF raised # 0
           THEN /\ run_trace' = [Fetched(run_trace,
                                    {batch[i] : i \in {k \in 1..Len(batch) :
                                        \A j \in 1..(k - 1) : batch[j] # raised}})
                                 EXCEPT !.abort = "fetch"]
                /\ run_result' = "False"
                /\ rpc' = "done"
                /\ UNCHANGED <<batch_idx, batch_dossiers_dict, batch_records>>
           ELSE \E answered \in {SelectSeq(batch, LAMBDA n : ~Inaccessible(n))} :
                /\ run_trace' = Fetched(run_trace, {batch[i] : i \in 1..Len(batch)})
                /\ batch_records' = NoRecords
                /\ IF answered = <<>>
                   THEN /\ EndOfBatch(successful_dossiers)
                        /\ batch_dossiers_dict' = <<>>
                   ELSE /\ batch_dossiers_dict' =
                                [i \in 1..Len(answered) |->
                                    [num |-> answered[i], data |-> GetDossier(answered[i])]]
                        /\ rpc' = "prepare"
                        /\ UNCHANGED <<batch_idx, run_result>>
    /\ UNCHANGED <<normVars, lastVars, flatVars, typeVars, filterVars, grist_tables,
                   grist_columns, grist_rows, platform, columns_cache, run, gpc,
                   history, first_rows, run_options, schema_method_successful,
                   successful_dossiers, failed_dossiers, workers>>

\* fetch_dossiers_in_parallel: one fetch per case of the batch is submitted
\* to the executor
SubmitBatch ==
    /\ rpc = "fetch"
    /\ run_options.parallel
    /\ \E batch \in {CurrentBatch} :
            workers' = [n \in {batch[i] : i \in 1..Len(batch)} |-> "queued"]
    /\ batch_dossiers_dict' = <<>>
    /\ batch_records' = NoRecords
    /\ rpc' = "collect"
    /\ UNCHANGED <<normVars, lastVars, flatVars, typeVars, filterVars, grist_tables,
                   grist_columns, grist_rows, platform, columns_cache, run, gpc,
                   history, failures, first_rows, run_options,
                   schema_method_successful, successful_dossiers, failed_dossiers,
                   batch_idx, run_result, run_trace>>

FinalWorkerStates == {"fetched", "empty", "failed"}

\* A worker of the executor takes a queued fetch
WorkerStart ==
    /\ rpc \in {"collect", "timedout"}
    /\ \E n \in DOMAIN workers :
        /\ workers[n] = "queued"
        /\ Cardinality({m \in DOMAIN workers : workers[m] = "running"}) < MaxWorkers
        /\ workers' = [workers EXCEPT ![n] = "running"]
        /\ run_trace' = Fetched(run_trace, {n})
    /\ UNCHANGED <<normVars, lastVars, flatVars, typeVars, filterVars, gristVars, run_options,
                   schema_method_successful, successful_dossiers, failed_dossiers,
                   batch_idx, batch_dossiers_dict, run_result, rpc>>

\* fetch_dossier in a worker: the answer of get_dossier, nothing when it
\* raises; the results are taken in the order of completion
WorkerFinish ==
    /\ rpc \in {"collect", "timedout"}
    /\ \E n \in DOMAIN workers :
       \E fetch_ok \in BOOLEAN :
        /\ workers[n] = "running"
        /\ failures + (IF fetch_ok THEN 0 ELSE 1) <= MaxRunFaults
        /\ failures' = failures + (IF fetch_ok THEN 0 ELSE 1)
        /\ workers' = [workers EXCEPT ![n] =
                            IF ~fetch_ok THEN "failed"
                            ELSE IF Inaccessible(n) THEN "empty" ELSE "fetched"]
        /\ batch_dossiers_dict' =
                IF fetch_ok /\ ~Inaccessible(n) /\ rpc = "collect"
                THEN Append(batch_dossiers_dict, [num |-> n, data |-> GetDossier(n)])
                ELSE batch_dossiers_dict
    /\ UNCHANGED <<normVars, lastVars, flatVars, typeVars, filterVars, grist_tables,
                   grist_columns, grist_rows, platform, batch_records, columns_cache,
                   run, gpc, history, first_rows, run_options,
                   schema_method_successful, successful_dossiers, failed_dossiers,
                   batch_idx, run_result, run_trace, rpc>>

\* Some fetch of the batch is over
FetchesCompleteSome(w) == \E n \in DOMAIN w : w[n] \in FinalWorkerStates

\* as_completed is exhausted and the executor is shut down: every fetch of
\* the batch is over
FetchesComplete(w) == \A n \in DOMAIN w : w[n] \in FinalWorkerStates

\* fetch_dossiers_in_parallel returns the cases it got
CollectBatch ==
    /\ rpc = "collect"
    /\ FetchesComplete(workers)
    /\ IF batch_dossiers_dict = <<>>
       THEN EndOfBatch(successful_dossiers)
       ELSE /\ rpc' = "prepare"
            /\ UNCHANGED <<batch_idx, run_result>>
    /\ UNCHANGED <<normVars, lastVars, flatVars, typeVars, filterVars, gristVars, run_options,
                   schema_method_successful, successful_dossiers, failed_dossiers,
                   batch_dossiers_dict, workers, run_trace>>

\* as_completed raises TimeoutError while a fetch is not over: the exception
\* leaves fetch_dossiers_in_parallel
FetchTimeout ==
    /\ rpc = "collect"
    /\ ~FetchesComplete(workers)
    /\ failures + 1 <= MaxRunFaults
    /\ failures' = failures + 1
    /\ rpc' = "timedout"
    /\ run_trace' = [run_trace EXCEPT !.abort = "timeout"]
    /\ UNCHANGED <<normVars, lastVars, flatVars, typeVars, filterVars, grist_tables,
                   grist_columns, grist_rows, platform, batch_records, columns_cache,
                   run, gpc, history, first_rows, run_options,
                   schema_method_successful, successful_dossiers, failed_dossiers,
                   batch_idx, batch_dossiers_dict, workers, run_result>>

\* The executor is shut down, which waits for the fetches, and the run
\* catches the TimeoutError: it returns False
AbortOnTimeout ==
    /\ rpc = "timedout"
    /\ FetchesComplete(workers)
    /\ run_result' = "False"
    /\ rpc' = "done"
    /\ UNCHANGED <<normVars, lastVars, flatVars, typeVars, filterVars, gristVars, run_options,
                   schema_method_successful, successful_dossiers, failed_dossiers,
                   batch_idx, batch_dossiers_dict, workers, run_trace>>

\* The loop over the fetched cases of the batch: a case is flattened, its
\* three records are built and the id columns of its annotations are added;
\* the exception of a case is caught and logged, and the loop goes on
RECURSIVE PrepareLoop(_, _, _, _)
PrepareLoop(entries, ct, ids, acc) ==
    IF entries = <<>> THEN acc
    ELSE IF FlattenRaises(Head(entries).data)
    THEN PrepareLoop(Tail(entries), ct, ids, acc)
    ELSE CHOOSE result \in
            {PrepareLoop(Tail(entries), ct, ids,
                [columns |-> p.added.columns,
                 calls |-> acc.calls \o p.added.calls,
                 records |->
                    [dossiers |-> Append(acc.records.dossiers,
                                    DossierRecord(Head(entries).data, ct.dossier)),
                     champs |-> Append(acc.records.champs,
                                    ChampRecord(Head(entries).num, p.flat.champs,
                                                ct.champs)),
                     annotations |-> Append(acc.records.annotations,
                                    AnnotationRecord(Head(entries).num,
                                                     p.flat.annotations,
                                                     ct.annotations))]]) :
                p \in {[flat |-> flat,
                        added |-> AddIdColumnsBasedOnAnnotations(acc.columns,
                                        flat.annotations, TRUE, TRUE)] :
                        flat \in {DossierToFlatData(Head(entries).data,
                                        ct.has_repetable_blocks, ids)}}} : TRUE

\* The fetches of the batch that are not over
Unfinished == {n \in DOMAIN workers : workers[n] \notin FinalWorkerStates}

\* A write of the run: its batch, its table, the thread that issues it and
\* the fetches that are not over when it is issued
WriteOf(table) ==
    [batch |-> batch_idx, table |-> table, thread |-> "main",
     unfinished |-> Unfinished]

PrepareBatch ==
    /\ rpc = "prepare"
    /\ \E prepared \in {PrepareLoop(batch_dossiers_dict, column_types, problematic_ids,
                            [columns |-> grist_columns["annotations"],
                             calls |-> <<>>,
                             records |-> NoRecords])} :
        /\ grist_columns' = [grist_columns EXCEPT !["annotations"] = prepared.columns]
        /\ batch_records' = prepared.records
        /\ run_trace' = [run_trace EXCEPT
                            !.batches = @ \cup {batch_idx},
                            !.writes = IF \E i \in 1..Len(prepared.calls) :
                                            prepared.calls[i].op = "POST columns"
                                       THEN @ \cup {WriteOf("annotations")}
                                       ELSE @]
    /\ rpc' = "dossiers"
    /\ UNCHANGED <<normVars, lastVars, flatVars, typeVars, filterVars, grist_tables, grist_rows,
                   platform, columns_cache, run, gpc, history, failures, first_rows,
                   run_options, schema_method_successful, successful_dossiers,
                   failed_dossiers, batch_idx, batch_dossiers_dict, workers,
                   run_result>>

\* The case numbers of the records of the case table
RecordNumbers(records) == {records[k][K_number] : k \in 1..Len(records)}

\* The three upserts of the batch: the case table, whose result files the
\* cases of the batch under the successful or the failed cases, then the
\* field table, then the annotation table; a table without a record is
\* skipped.  The form has no repeatable block: the batch ends there.
UpsertRunBatch ==
    /\ rpc \in {"dossiers", "champs", "annotations"}
    /\ IF batch_records[rpc] = <<>>
       THEN /\ UNCHANGED <<grist_rows, failures, successful_dossiers,
                           failed_dossiers, run_trace>>
            /\ IF rpc = "annotations" THEN EndOfBatch(successful_dossiers)
               ELSE /\ rpc' = IF rpc = "dossiers" THEN "champs" ELSE "annotations"
                    /\ UNCHANGED <<batch_idx, run_result>>
       ELSE \E ok \in UpsertAnswers(Len(batch_records[rpc])) :
            /\ failures + Refused(ok) <= MaxRunFaults
            /\ \E done \in {UpsertMultipleDossiersInGrist(rpc, batch_records[rpc],
                                grist_rows[rpc], grist_columns[rpc], ok)} :
               \E filed \in {IF rpc # "dossiers"
                             THEN [successful |-> successful_dossiers,
                                   failed |-> failed_dossiers]
                             ELSE IF done.success
                             THEN [successful |-> successful_dossiers \cup
                                        RecordNumbers(batch_records[rpc]),
                                   failed |-> failed_dossiers]
                             ELSE [successful |-> successful_dossiers,
                                   failed |-> failed_dossiers \cup
                                        RecordNumbers(batch_records[rpc])]} :
                /\ Refused(ok) = FailedCalls(done.calls)
                /\ failures' = failures + Refused(ok)
                /\ grist_rows' = [grist_rows EXCEPT ![rpc] = done.rows]
                /\ successful_dossiers' = filed.successful
                /\ failed_dossiers' = filed.failed
                /\ run_trace' = [run_trace EXCEPT
                                    !.writes = @ \cup {WriteOf(rpc)},
                                    !.case_writes = IF rpc = "dossiers"
                                                    THEN @ + done.total_success
                                                    ELSE @]
                /\ IF rpc = "annotations" THEN EndOfBatch(filed.successful)
                   ELSE /\ rpc' = IF rpc = "dossiers" THEN "champs" ELSE "annotations"
                        /\ UNCHANGED <<batch_idx, run_result>>
    /\ UNCHANGED <<normVars, lastVars, flatVars, typeVars, filterVars, grist_tables,
                   grist_columns, platform, batch_records, columns_cache, run, gpc,
                   history, first_rows, run_options, schema_method_successful,
                   batch_dossiers_dict, workers>>

RunNext ==
    \/ DiscoverRunSchema
    \/ PrepareRunTables
    \/ ListRunDossiers
    \/ FetchBatchInSequence
    \/ SubmitBatch
    \/ WorkerStart
    \/ WorkerFinish
    \/ CollectBatch
    \/ FetchTimeout
    \/ AbortOnTimeout
    \/ PrepareBatch
    \/ UpsertRunBatch

SpecRun == RunInit /\ [][RunNext]_vars

-----------------------------------------------------------------------------
\* Properties of the runs of a form (SpecRun)

\* The steps of a run that write to the tables of a batch
WritePhases == {"prepare", "dossiers", "champs", "annotations"}

\* C16: every write of a batch to a table (column additions, row updates,
\* row creates) is issued by the orchestrating thread, and when it is issued
\* every case fetch of its batch is over: no fetch worker is queued or
\* running while the batch is prepared and written.
C16_WritesAfterFetches ==
    /\ \A w \in run_trace.writes : w.thread = "main" /\ w.unfinished = {}
    /\ rpc \in WritePhases => FetchesComplete(workers)

\* A parallel run wrote the case table of a batch of two cases, both of
\* them fetched by a worker
C16_Witness ==
    /\ run_options.parallel
    /\ Cardinality(DOMAIN workers) = 2
    /\ \A n \in DOMAIN workers : workers[n] = "fetched"
    /\ \E w \in run_trace.writes : w.table = "dossiers" /\ w.batch = batch_idx
    /\ rpc = "champs"

\* The sampled cases of the fallback and what makes the sample-based path
\* fail: the fetch of a sample raised, no sampled case was answered, or a
\* sampled case cannot be flattened
SampledNumbers ==
    {demarche_dossiers[i].number :
        i \in {k \in 1..Len(demarche_dossiers) : k <= SampleSize}}

SamplePathFails ==
    \/ run_trace.sample_raised
    \/ \A n \in SampledNumbers : Inaccessible(n)
    \/ \E n \in SampledNumbers : ~Inaccessible(n) /\ FlattenRaises(GetDossier(n))

BatchResultNumbers == {batch_dossiers_dict[i].num : i \in 1..Len(batch_dossiers_dict)}

\* The cases of the batch result are processed: each one that can be
\* flattened has its record among the records of the batch
BatchResultProcessed ==
    rpc \in {"dossiers", "champs", "annotations"} =>
        \A n \in BatchResultNumbers :
            FlattenRaises(GetDossier(n))
            \/ n \in RecordNumbers(batch_records.dossiers)

\* The part of C17 about the fetches that answer with a failure: no case is
\* fetched twice, the batch result holds the cases whose fetch gave a case
\* and none of the failed ones, its cases are processed, and a run that is
\* not aborted has fetched every kept case
FailedFetchLeftOut ==
    /\ \A n \in RunNumbers : run_trace.fetches[n] <= 1
    /\ rpc \in WritePhases =>
            \A n \in DOMAIN workers :
                (workers[n] = "fetched") <=> (n \in BatchResultNumbers)
    /\ BatchResultProcessed
    /\ (rpc = "done" /\ run_trace.abort = "none") =>
            \A i \in 1..Len(filtered_dossiers) :
                run_trace.fetches[filtered_dossiers[i].number] = 1

\* C17: in a parallel run a failed fetch leaves its case out of the batch
\* result, without a second fetch, while the other cases of the batch are
\* processed and the run goes on; a fetch that exceeds the timeout does the
\* same: it does not end the run.
C17_FailedFetchIsInaccessible ==
    run_options.parallel =>
        /\ FailedFetchLeftOut
        /\ run_trace.abort # "timeout"

\* The parallel runs without the timeout
FailedFetchLeftOutInParallel == run_options.parallel => FailedFetchLeftOut

\* C11: a finished run that processed a case reports success exactly when a
\* write of a record to the case table succeeded.
C11_SuccessIffCaseWrite ==
    (rpc = "done" /\ run_trace.batches # {}) =>
        ((run_result = "True") <=> (run_trace.case_writes > 0))

\* The part of C11 on the runs that end after their last batch without the
\* columns of the schema: the result is True exactly when a batch of case
\* records was written, whatever the other tables answered
SuccessIffCaseWriteOnSamples ==
    (rpc = "done" /\ run_trace.batches # {} /\ run_trace.abort = "none"
     /\ ~schema_method_successful) =>
        ((run_result = "True") <=> (successful_dossiers # {}))

\* The cases of the batch result whose flattening raises
Unflattenable == {n \in BatchResultNumbers : FlattenRaises(GetDossier(n))}

\* The part of C12 about the other cases and the following batches: a case
\* whose flattening raises has no record and no row, every other case of
\* the batch result has its record in the write of the batch, and a run
\* that is not aborted fetches every kept case
FlattenFailureIsolated ==
    /\ rpc \in {"dossiers", "champs", "annotations"} =>
            \A n \in BatchResultNumbers :
                (n \in RecordNumbers(batch_records.dossiers)) <=> (n \notin Unflattenable)
    /\ \A n \in RunNumbers :
            FlattenRaises(GetDossier(n)) =>
                /\ KeyedBy(grist_rows["dossiers"], n) = {}
                /\ n \notin successful_dossiers
    /\ (rpc = "done" /\ run_trace.abort = "none") =>
            \A i \in 1..Len(filtered_dossiers) :
                run_trace.fetches[filtered_dossiers[i].number] >= 1

\* C12: once the case table of a batch is written, a case of the batch
\* whose flattening raised is among the failed cases of the run, while the
\* other cases of the batch are written and the run goes on to the next
\* batches.
C12_FlattenFailureCounted ==
    /\ FlattenFailureIsolated
    /\ rpc \in {"champs", "annotations"} => Unflattenable \subseteq failed_dossiers

\* The result of a run on a list of cases when every call is answered but,
\* possibly, the discovery of the schema: with the schema the run returns
\* True; without it the fallback decides, then an empty kept list gives True
\* and a kept list gives True exactly when one of its cases is fetched,
\* flattened and written
RunResultOn(listed, schema_ok) ==
    IF schema_ok THEN "True"
    ELSE IF FallbackColumnTypes(SampleDossiers(listed, {}),
                GetProblematicDescriptorIds(platform.schema)).aborted
    THEN "False"
    ELSE LET kept == KeptDossiers(listed)
         IN  IF Len(kept) = 0 THEN "True"
             ELSE IF \E i \in 1..Len(kept) :
                        /\ ~Inaccessible(kept[i].number)
                        /\ ~FlattenRaises(GetDossier(kept[i].number))
             THEN "True" ELSE "False"

\* The runs where nothing fails but, possibly, the discovery
Unfaulted == failures = (IF run_trace.discovery = "failed" THEN 1 ELSE 0)

\* The finished runs where every call is answered return RunResultOn
RunResultOnListed ==
    (rpc = "done" /\ Unfaulted) =>
        run_result = RunResultOn(demarche_dossiers, schema_method_successful)

\* The list of the form without a case
ListedWithout(n) == SelectSeq(demarche_dossiers, LAMBDA d : d.number # n)

\* The cases of the batches whose fetch gave an empty response
EmptyFetched == {n \in RunNumbers : Inaccessible(n) /\ run_trace.fetches[n] >= 1}

\* The part of C13 about the rows and the counts: an inaccessible case has
\* no row in a table and is neither a successful nor a failed case
EmptyFetchLeftOut ==
    \A n \in RunNumbers :
        Inaccessible(n) =>
            /\ \A t \in StandardTables : KeyedBy(grist_rows[t], n) = {}
            /\ n \notin successful_dossiers \cup failed_dossiers

\* C13: a case whose fetch gives an empty response has no row written and
\* is neither a successful nor a failed case, and the result of a finished
\* run where every other call is answered is the result of the same run on
\* the list without that case.
C13_EmptyFetchSkipped ==
    /\ EmptyFetchLeftOut
    /\ (rpc = "done" /\ Unfaulted) =>
            \A n \in EmptyFetched :
                run_result = RunResultOn(ListedWithout(n), schema_method_successful)

(***************************************************************************)
(* Part G.  The repeatable rows of a case that is edited between two syncs *)
(* (process_repetables_batch against the rows an earlier sync left).       *)
(***************************************************************************)
\* The row ids the platform gives the rows of the block
RowIds == {<<"r","1">>, <<"r","2">>, <<"r","3">>}

\* The rows of the block of a case: up to MaxRows rows, each with its own id
RowIdLists ==
    {ids \in UNION {[1..n -> RowIds] : n \in 1..MaxRows} :
        \A a \in 1..Len(ids), b \in 1..Len(ids) : a # b => ids[a] # ids[b]}

\* The label of the block, as the form's author typed it
BlockLabels == {L_Parcelles, LowerText(L_Parcelles)}

\* The map field of a row, with one geo area of its own
ZoneOf(row_id) ==
    Champ(<<"c","2">>, "CarteChamp", L_Zone, None,
          <<[id |-> <<"g">> \o row_id, description |-> <<"parcelle">>]>>, <<>>)

\* The form with the block and a case of it with the given rows
EditedForm(lbl) ==
    [champDescriptors |->
        <<Desc(<<"d","9">>, "RepetitionChampDescriptor", "repetition", lbl,
               <<F_Nature.d, F_Zone(1).d>>)>>,
     annotationDescriptors |-> <<>>]

EditedCase(lbl, ids, geo) ==
    [id |-> <<"D">> \o NumText(CaseNumber),
     number |-> CaseNumber,
     state |-> "en_construction",
     champs |-> <<Champ(<<"d","9">>, "RepetitionChamp", lbl, None, <<>>,
                    [i \in 1..Len(ids) |->
                        [id |-> ids[i],
                         champs |-> IF geo THEN <<F_Nature.c, ZoneOf(ids[i])>>
                                    ELSE <<F_Nature.c>>]])>>,
     annotations |-> <<>>]

\* The document after the tables of the form were created, before any row
RowsInit ==
    /\ \E lbl \in BlockLabels, ids \in RowIdLists, geo \in BOOLEAN :
        /\ platform = [schema |-> EditedForm(lbl),
                       dossiers |-> <<EditedCase(lbl, ids, geo)>>]
        /\ demarche_schema = EditedForm(lbl)
        /\ column_types = CreateColumnsFromSchema(EditedForm(lbl))
        /\ problematic_ids = GetProblematicDescriptorIdsFromSchema(EditedForm(lbl))
        /\ \E made \in {UpdateGristTables(CreateColumnsFromSchema(EditedForm(lbl)),
                                {}, NoColumns, [t \in GristTables |-> TRUE],
                                [t \in GristTables |-> TRUE])} :
            /\ grist_tables = made.tables
            /\ grist_columns = made.columns
            /\ history = [handler |-> "none", tables |-> made.tables,
                          columns |-> made.columns, rows |-> NoRows,
                          requested |-> Nothing, incoming |-> NoIncoming,
                          calls |-> <<>>, counted |-> NoneCounted]
    /\ grist_rows = NoRows
    /\ batch_records = NoRecords
    /\ columns_cache = EmptyDict
    /\ run = 1
    /\ gpc = "repetables"
    /\ failures = 0
    /\ first_rows = NoRows
    /\ dossier_data = NULL
    /\ flat_data = NULL
    /\ rep_records = NULL
    /\ fpc = "idle"
    /\ NormIdle
    /\ LaterIdle

\* The user edits the block of the case between two syncs: rows are removed,
\* added or given geo areas
EditRows ==
    /\ gpc = "finished"
    /\ run < MaxRuns
    /\ \E ids \in RowIdLists, geo \in BOOLEAN :
        platform' = [platform EXCEPT !.dossiers =
                        <<EditedCase(platform.dossiers[1].champs[1].label, ids, geo)>>]
    /\ run' = run + 1
    /\ gpc' = "repetables"
    /\ UNCHANGED <<flatVars, normVars, laterVars, grist_tables, grist_columns, grist_rows,
                   batch_records, columns_cache, history, failures, first_rows>>

RowsNext ==
    \/ ProcessRepetablesOfBatch
    \/ EditRows

SpecRows == RowsInit /\ [][RowsNext]_vars

\* The records of the batch that update the row with the given id
UpdatesOf(incoming, id) == {k \in 1..Len(incoming) : incoming[k].id = id}

\* C30: in one batch of the reconciliation of the repeatable rows, no two
\* incoming records are matched to the same existing row: each existing row
\* is updated by at most one record of the batch.
C30_OneUpdatePerRow ==
    history.handler = "process_repetables_batch"
    => \A id \in {history.rows["repetable_rows"][i].id :
                    i \in 1..Len(history.rows["repetable_rows"])} :
            Cardinality(UpdatesOf(history.incoming["repetable_rows"], id)) <= 1

\* The part of C30 on the blocks whose label has an upper-case letter
OneUpdatePerRowOfCapitalisedBlock ==
    (/\ history.handler = "process_repetables_batch"
     /\ platform.dossiers[1].champs[1].label # LowerText(platform.dossiers[1].champs[1].label))
    => \A id \in {history.rows["repetable_rows"][i].id :
                    i \in 1..Len(history.rows["repetable_rows"])} :
            Cardinality(UpdatesOf(history.incoming["repetable_rows"], id)) <= 1

(***************************************************************************)
(* Part H.  The WKT text that extract_geo_data builds from the geometry of *)
(* a geo area.                                                             *)
(***************************************************************************)

MaxRingLen == 3
MaxRings == 2

\* The points of the model: coordinate pairs [x, y] of small integers.
Points == {<<0, 0>>, <<1, 0>>, <<1, 1>>}

\* The rings and lines of the model: up to MaxRingLen points, no point twice
\* in a row
Rings ==
    {ring \in UNION {[1..n -> Points] : n \in 0..MaxRingLen} :
        \A i \in 1..(Len(ring) - 1) : ring[i] # ring[i + 1]}

Coordinates == UNION {[1..n -> Rings] : n \in 0..MaxRings}

Geometries == [type : {"Polygon", "MultiLineString"},
               coordinates : Coordinates]

\* f"{p[0]} {p[1]}"
PointText(p) == NumText(p[1]) \o <<" ">> \o NumText(p[2])

\* ", ".join([f"{p[0]} {p[1]}" for p in ring])
PointsText(ring) == Join([i \in 1..Len(ring) |-> PointText(ring[i])], <<",", " ">>)

\* A ring rendered as it was given
CloseRingAsGiven(ring) == ring

\* if ring[0] != ring[-1]: ring = ring + [ring[0]]
CloseRing(ring) == IF ring[1] # ring[Len(ring)] THEN Append(ring, ring[1]) ELSE ring

\* The Polygon branch: each ring closed, rendered between parentheses, the
\* rings joined by ", "
PolygonWkt(coordinates) ==
    <<"P","O","L","Y","G","O","N","(">>
    \o Join([i \in 1..Len(coordinates) |->
                <<"(">> \o PointsText(CloseRing(coordinates[i])) \o <<")">>],
            <<",", " ">>)
    \o <<")">>

\* The MultiLineString branch: the lines rendered as they are
MultiLineStringWkt(coordinates) ==
    <<"M","U","L","T","I","L","I","N","E","S","T","R","I","N","G","(">>
    \o Join([i \in 1..Len(coordinates) |->
                <<"(">> \o PointsText(coordinates[i]) \o <<")">>],
            <<",", " ">>)
    \o <<")">>

\* ring[0] on an empty ring raises IndexError, caught by the except clause
RingRaises(coordinates) == \E i \in 1..Len(coordinates) : coordinates[i] = <<>>

\* extract_geo_data, the geo_wkt entry: absent when the coordinates are
\* empty, None when the type is not rendered or the rendering raised
GeoWkt(geom) ==
    IF geom.coordinates = <<>> THEN [present |-> FALSE, wkt |-> None]
    ELSE IF geom.type = "Polygon"
         THEN IF RingRaises(geom.coordinates) THEN [present |-> TRUE, wkt |-> None]
              ELSE [present |-> TRUE, wkt |-> PolygonWkt(geom.coordinates)]
    ELSE IF geom.type = "MultiLineString"
         THEN [present |-> TRUE, wkt |-> MultiLineStringWkt(geom.coordinates)]
    ELSE [present |-> TRUE, wkt |-> None]

WktInit ==
    /\ geometry \in Geometries
    /\ geo_wkt = NULL
    /\ wpc = "extract"
    /\ NormIdle
    /\ FlatIdle
    /\ GristIdle
    /\ TypeIdle
    /\ FilterIdle
    /\ RunIdle
    /\ MergeIdle
    /\ CacheIdle
    /\ RaceIdle

ExtractGeoWkt ==
    /\ wpc = "extract"
    /\ geo_wkt' = GeoWkt(geometry)
    /\ wpc' = "done"
    /\ UNCHANGED <<geometry, normVars, flatVars, gristVars, typeVars, filterVars, runVars,
                   mergeVars, cacheVars, raceVars>>

WktNext == ExtractGeoWkt

SpecWkt == WktInit /\ [][WktNext]_vars

(***************************************************************************)
(* Properties of the WKT text (SpecWkt)                                    *)
(***************************************************************************)

\* The text of a sequence of points, written independently of the code:
\* the points in order, "x y", separated by ", "
RECURSIVE RingText(_)
RingText(points) ==
    IF points = <<>> THEN <<>>
    ELSE NumText(Head(points)[1]) \o <<" ">> \o NumText(Head(points)[2])
         \o (IF Tail(points) = <<>> THEN <<>> ELSE <<",", " ">> \o RingText(Tail(points)))

\* The closed form of a ring: the ring itself when its last point is its
\* first, the ring followed by its first point otherwise
ClosedForm(ring) ==
    CHOOSE c \in UNION {[1..n -> Points] : n \in Len(ring)..(Len(ring) + 1)} :
        /\ c[1] = c[Len(c)]
        /\ SubSeq(c, 1, Len(ring)) = ring
        /\ (Len(c) = Len(ring)) = (ring[1] = ring[Len(ring)])

RECURSIVE RingsText(_)
RingsText(rings) ==
    IF rings = <<>> THEN <<>>
    ELSE <<"(">> \o RingText(ClosedForm(Head(rings))) \o <<")">>
         \o (IF Tail(rings) = <<>> THEN <<>> ELSE <<",", " ">> \o RingsText(Tail(rings)))

ExampleRing == <<<<0, 0>>, <<1, 0>>, <<1, 1>>>>

ExampleWkt == <<"P","O","L","Y","G","O","N","(","(","0"," ","0",","," ","1"," ","0",","," ","1"," ","1",","," ","0"," ","0",")",")">>

\* C21: the WKT of a Polygon is made of the closed forms of its rings, a
\* ring already closed being rendered unchanged and an open one with its
\* first point appended; the ring [[0,0],[1,0],[1,1]] gives
\* POLYGON((0 0, 1 0, 1 1, 0 0))
C21_PolygonRingsClosed ==
    (wpc = "done" /\ geometry.type = "Polygon" /\ geo_wkt.present /\ geo_wkt.wkt # None)
    => /\ geo_wkt.wkt = <<"P","O","L","Y","G","O","N","(">>
                        \o RingsText(geometry.coordinates) \o <<")">>
       /\ geometry.coordinates = <<ExampleRing>> => geo_wkt.wkt = ExampleWkt

C21_Witness ==
    /\ wpc = "done"
    /\ geometry.type = "Polygon"
    /\ geometry.coordinates = <<ExampleRing, <<<<1, 1>>, <<1, 0>>, <<1, 1>>>> >>
    /\ geo_wkt.present
    /\ geo_wkt.wkt # None

(***************************************************************************)
(* Part I.  The column sets detect_column_types_from_multiple_dossiers     *)
(* gives for several sampled cases of one form.                            *)
(***************************************************************************)

MaxSamples == 2

L_Debut == <<"D","e","b","u","t">>
L_Visa == <<"V","i","s","a">>
L_Montant == <<"M","o","n","t","a","n","t">>

\* What a sampled case holds in a field or an annotation: nothing, a plain
\* text, a text with a date in it
SampleValues == {None, <<"o","u","i">>, <<"2","0","2","4","-","0","5">>}

SampleAnnotationValues == {None, <<"2","0","2","4","-","0","5">>}

\* The typenames under which the cases hold the field of their block
SampleTypenames ==
    {"TextChamp", "IntegerNumberChamp", "DecimalNumberChamp", "DateChamp",
     "CheckboxChamp"}

\* A sampled case: a field, an annotation and a block of one row of one field
SampleCase(number, value, note, typename) ==
    [id |-> <<"D">> \o NumText(number),
     number |-> number,
     state |-> "en_construction",
     champs |-> <<Champ(<<"d","1">>, "TextChamp", L_Debut, value, <<>>, <<>>),
                  Champ(<<"d","9">>, "RepetitionChamp", L_Parcelles, None, <<>>,
                        <<[id |-> <<"r","1">>,
                           champs |-> <<Champ(<<"c","1">>, typename, L_Montant,
                                              None, <<>>, <<>>)>>]>>)>>,
     annotations |-> <<Champ(<<"a","1">>, "TextChamp", L_Visa, note, <<>>, <<>>)>>]

MergeInit ==
    /\ \E n \in 1..MaxSamples :
        \E held \in [1..n -> SampleValues \X SampleAnnotationValues \X SampleTypenames] :
            sample_dossiers = [i \in 1..n |->
                                SampleCase(i, held[i][1], held[i][2], held[i][3])]
    /\ detected_columns = NULL
    /\ mpc = "detect"
    /\ NormIdle
    /\ FlatIdle
    /\ GristIdle
    /\ TypeIdle
    /\ FilterIdle
    /\ RunIdle
    /\ WktIdle
    /\ CacheIdle
    /\ RaceIdle

DetectColumnsOfSamples ==
    /\ mpc = "detect"
    /\ detected_columns' = DetectColumnTypesFromMultipleDossiers(sample_dossiers, {})
    /\ mpc' = "done"
    /\ UNCHANGED <<sample_dossiers, normVars, flatVars, gristVars, typeVars, filterVars,
                   runVars, wktVars, cacheVars, raceVars>>

MergeNext == DetectColumnsOfSamples

SpecMerge == MergeInit /\ [][MergeNext]_vars

(***************************************************************************)
(* Properties of the merged column sets (SpecMerge)                        *)
(***************************************************************************)

\* The column set of a table in a result of the detection
ColumnsOfTable(result, table) ==
    CASE table = "champs" -> result.champs
      [] table = "annotations" -> result.annotations
      [] table = "repetable_rows" -> result.repetable_rows

TypeOfColumn(cols, id) == cols[CHOOSE i \in 1..Len(cols) : cols[i].id = id].type

\* The types under which the sampled cases, each taken alone and in their
\* order, give the column
SeenTypes(table, id) ==
    LET alone == [i \in 1..Len(sample_dossiers) |->
                    ColumnsOfTable(
                        DetectColumnTypesFromMultipleDossiers(<<sample_dossiers[i]>>, {}),
                        table)]
        with == SelectSeq([i \in 1..Len(sample_dossiers) |-> i],
                          LAMBDA i : id \in ColumnIds(alone[i]))
    IN  [k \in 1..Len(with) |-> TypeOfColumn(alone[with[k]], id)]

\* The more specific type wins for the column of the table
SpecificTypeWins(table, id) ==
    LET seen == SeenTypes(table, id)
        merged == TypeOfColumn(ColumnsOfTable(detected_columns, table), id)
    IN  seen # <<>> =>
        /\ (seen[1] = "Text" /\ \E k \in 2..Len(seen) : seen[k] # "Text")
                => merged # "Text"
        /\ (seen[1] = "Int" /\ \E k \in 2..Len(seen) : seen[k] \in {"Numeric", "DateTime"})
                => merged \in {"Numeric", "DateTime"}

\* C28: when the sampled cases give a column different types, the merged
\* type is the more specific one in the column sets of the fields, of the
\* annotations and of the repeatable rows: a Text seen first gives way to a
\* later type that is not Text, an Int seen first to a later Numeric or
\* DateTime.
C28_SpecificTypeWins ==
    mpc = "done"
    => \A table \in {"champs", "annotations", "repetable_rows"} :
        \A id \in ColumnIds(ColumnsOfTable(detected_columns, table)) :
            SpecificTypeWins(table, id)

\* The same for the column set of the repeatable rows alone
SpecificTypeWinsInRepetableRows ==
    mpc = "done"
    => \A id \in ColumnIds(detected_columns.repetable_rows) :
            SpecificTypeWins("repetable_rows", id)

(***************************************************************************)
(* Part J.  Sync runs of a form with a repeatable block whose active       *)
(* revision may have dropped the block: the schema is that of the active   *)
(* revision, the cases were filed under the revision with the block.       *)
(***************************************************************************)

BlockForm ==
    [champs |-> <<F_Nom, F_Parcelles(<<<<F_Nature, F_Zone(1)>>, <<F_Nature>>>>)>>,
     annotations |-> <<F_Avis>>]

FormWithoutBlock == [champs |-> <<F_Nom>>, annotations |-> <<F_Avis>>]

RevisedInit ==
    /\ \E dropped \in BOOLEAN, numbers \in CaseLists :
            platform = [schema |-> IF dropped THEN SchemaOf(FormWithoutBlock)
                                   ELSE SchemaOf(BlockForm),
                        dossiers |-> [i \in 1..Len(numbers) |->
                                        CaseOf(BlockForm, numbers[i])]]
    /\ grist_tables = EmptyDocument.tables
    /\ grist_columns = EmptyDocument.columns
    /\ grist_rows = EmptyDocument.rows
    /\ history = [handler |-> "none", tables |-> EmptyDocument.tables,
                  columns |-> EmptyDocument.columns, rows |-> EmptyDocument.rows,
                  requested |-> Nothing, incoming |-> NoIncoming,
                  calls |-> <<>>, counted |-> NoneCounted]
    /\ batch_records = NoRecords
    /\ columns_cache = EmptyDict
    /\ run = 1
    /\ gpc = "schema"
    /\ failures = 0
    /\ first_rows = NoRows
    /\ demarche_schema = NULL
    /\ dossier_data = NULL
    /\ column_types = NULL
    /\ problematic_ids = NULL
    /\ flat_data = NULL
    /\ rep_records = NULL
    /\ fpc = "idle"
    /\ NormIdle
    /\ LaterIdle

SpecRevised == RevisedInit /\ [][Next]_vars

(***************************************************************************)
(* Properties of the destinations of a block (SpecRevised)                 *)
(***************************************************************************)

\* The blocks among the fields of a case
BlocksOf(champs) ==
    {champs[i] : i \in {k \in 1..Len(champs) : champs[k].typename = "RepetitionChamp"}}

\* The field names under which the field rows would hold the block
BlockFieldNames(block, prefix) ==
    LET values == ExtractChampValues(block, prefix, None)
    IN  {AnnotationColumnId(values[k].label) : k \in 1..Len(values)}

\* The records of a list that belong to a case
RecordsOfCase(records, n) ==
    {records[k] : k \in {j \in 1..Len(records) : DossierNumberOf(records[j]) = n}}

\* The field and annotation records prepared for the case hold the block
InFieldRecords(dossier) ==
    \/ \E block \in BlocksOf(dossier.champs) :
        \E record \in RecordsOfCase(batch_records.champs, dossier.number) :
            BlockFieldNames(block, <<>>) \cap DOMAIN record # {}
    \/ \E block \in BlocksOf(dossier.annotations) :
        \E record \in RecordsOfCase(batch_records.annotations, dossier.number) :
            BlockFieldNames(block, Str_annotation_) \cap DOMAIN record # {}

\* The handler of the repeatable rows was given rows of the case
InRepetableRecords(dossier) ==
    /\ history.handler = "process_repetables_batch"
    /\ \E k \in 1..Len(history.incoming["repetable_rows"]) :
            DossierNumberOf(history.incoming["repetable_rows"][k].fields) = dossier.number

BlockWalkedAsFields ==
    /\ gpc = "finished"
    /\ ~column_types.has_repetable_blocks
    /\ \A i \in 1..Len(platform.dossiers) : InFieldRecords(platform.dossiers[i])

(***************************************************************************)
(* Part K.  The schema cache of OptimizedMultiDemarcheManager:             *)
(* get_schema_optimized over forms whose schema changes and a clock that   *)
(* advances.  A schema is the number of its revision.                      *)
(***************************************************************************)

MaxTime == 3
MaxRevision == 2
SchemaCacheDuration == 2

Demarches == {1, 2}

\* "not force_refresh and cache_key in self.schema_cache" and the entry is
\* younger than schema_cache_duration, whatever force_refresh says
CacheHitWhenForced(cache, cache_key, now, force_refresh) ==
    /\ cache_key \in DOMAIN cache
    /\ now - cache[cache_key].timestamp < SchemaCacheDuration

\* "not force_refresh and cache_key in self.schema_cache" and the entry is
\* younger than schema_cache_duration
CacheHit(cache, cache_key, now, force_refresh) ==
    /\ ~force_refresh
    /\ cache_key \in DOMAIN cache
    /\ now - cache[cache_key].timestamp < SchemaCacheDuration

\* get_schema_optimized: the cache it leaves, whether it fetched and what it
\* answers; fetch_ok is whether get_demarche_schema_enhanced answers
GetSchemaOptimizedOn(cache, now, published, demarche_number, force_refresh, fetch_ok) ==
    LET cache_key == NumText(demarche_number)
    IN  IF CacheHit(cache, cache_key, now, force_refresh)
        THEN [cache |-> cache, fetched |-> FALSE, raised |-> FALSE,
              schema |-> cache[cache_key].schema]
        ELSE IF fetch_ok
        THEN [cache |-> [k \in (DOMAIN cache) \cup {cache_key} |->
                            IF k = cache_key
                            THEN [schema |-> published, timestamp |-> now]
                            ELSE cache[k]],
              fetched |-> TRUE, raised |-> FALSE, schema |-> published]
        ELSE IF cache_key \in DOMAIN cache
        THEN [cache |-> cache, fetched |-> TRUE, raised |-> FALSE,
              schema |-> cache[cache_key].schema]
        ELSE [cache |-> cache, fetched |-> TRUE, raised |-> TRUE, schema |-> 0]

NoEntries == [k \in {} |-> [schema |-> 0, timestamp |-> 0]]

CacheInit ==
    /\ schema_cache = NoEntries
    /\ current_time = 0
    /\ form_schemas = [d \in Demarches |-> 1]
    /\ last_call = [demarche_number |-> 0, force_refresh |-> FALSE, fetch_ok |-> FALSE,
                    before |-> NoEntries, time |-> 0, published |-> 0,
                    fetched |-> FALSE, raised |-> FALSE, schema |-> 0]
    /\ NormIdle
    /\ FlatIdle
    /\ GristIdle
    /\ TypeIdle
    /\ FilterIdle
    /\ RunIdle
    /\ WktIdle
    /\ MergeIdle
    /\ RaceIdle

GetSchemaOptimized ==
    \E demarche_number \in Demarches, force_refresh \in BOOLEAN, fetch_ok \in BOOLEAN :
        \E got \in {GetSchemaOptimizedOn(schema_cache, current_time,
                                         form_schemas[demarche_number],
                                         demarche_number, force_refresh, fetch_ok)} :
            /\ schema_cache' = got.cache
            /\ last_call' = [demarche_number |-> demarche_number,
                             force_refresh |-> force_refresh,
                             fetch_ok |-> got.fetched /\ fetch_ok,
                             before |-> schema_cache,
                             time |-> current_time,
                             published |-> form_schemas[demarche_number],
                             fetched |-> got.fetched,
                             raised |-> got.raised,
                             schema |-> got.schema]
            /\ UNCHANGED <<current_time, form_schemas, normVars, flatVars, gristVars,
                           typeVars, filterVars, runVars, wktVars, mergeVars, raceVars>>

\* Time passes between two calls
TimePasses ==
    /\ current_time < MaxTime
    /\ current_time' = current_time + 1
    /\ UNCHANGED <<schema_cache, form_schemas, last_call, normVars, flatVars, gristVars,
                   typeVars, filterVars, runVars, wktVars, mergeVars, raceVars>>

\* The administrator of a form publishes a new revision
PublishRevision ==
    /\ \E d \in Demarches :
        /\ form_schemas[d] < MaxRevision
        /\ form_schemas' = [form_schemas EXCEPT ![d] = @ + 1]
    /\ UNCHANGED <<schema_cache, current_time, last_call, normVars, flatVars, gristVars,
                   typeVars, filterVars, runVars, wktVars, mergeVars, raceVars>>

CacheNext ==
    \/ GetSchemaOptimized
    \/ TimePasses
    \/ PublishRevision

SpecCache == CacheInit /\ [][CacheNext]_vars

(***************************************************************************)
(* Properties of the schema cache (SpecCache)                              *)
(***************************************************************************)

\* The entry the cache held for the form of the latest call
CachedBefore == NumText(last_call.demarche_number) \in DOMAIN last_call.before

\* C26: a call with force refresh always fetches, and answers the published
\* schema when the fetch succeeds; a call whose fetch fails answers the
\* schema the cache held, however old, when it held one; the call raises
\* exactly when its fetch fails and the cache held no schema of the form.
C26_ForcedRefreshAndStaleFallback ==
    last_call.demarche_number \in Demarches
    => /\ last_call.force_refresh => last_call.fetched
       /\ (last_call.force_refresh /\ last_call.fetch_ok)
            => /\ ~last_call.raised
               /\ last_call.schema = last_call.published
               /\ schema_cache[NumText(last_call.demarche_number)] =
                    [schema |-> last_call.published, timestamp |-> last_call.time]
       /\ (last_call.fetched /\ ~last_call.fetch_ok /\ CachedBefore)
            => /\ ~last_call.raised
               /\ last_call.schema =
                    last_call.before[NumText(last_call.demarche_number)].schema
       /\ last_call.raised
            <=> (last_call.fetched /\ ~last_call.fetch_ok /\ ~CachedBefore)

\* A forced call whose fetch fails and that is answered from an expired
\* entry holding an older revision than the published one
C26_Witness ==
    /\ last_call.demarche_number \in Demarches
    /\ last_call.fetched
    /\ ~last_call.fetch_ok
    /\ CachedBefore
    /\ last_call.time - last_call.before[NumText(last_call.demarche_number)].timestamp
            >= SchemaCacheDuration
    /\ last_call.force_refresh
    /\ last_call.schema < last_call.published

(***************************************************************************)
(* Part L.  ColumnCache over the columns of the document: get_columns and  *)
(* add_missing_columns, the only writer of the document.  The cache is     *)
(* kept by its column ids.                                                 *)
(***************************************************************************)

CachedTables == {"champs", "annotations"}

\* The names a caller asks columns for
MissingNames == {L_Nom, L_Avis}

MaxMissing == 2

MissingLists == UNION {[1..n -> MissingNames] : n \in 0..MaxMissing}

\* ColumnCache.get_columns: the cache it leaves; get_ok is whether the
\* listing of the columns answers 200
GetColumns(cache, table_columns, table_id, force_refresh, get_ok) ==
    IF table_id \notin DOMAIN cache \/ force_refresh
    THEN [cache |-> Put(cache, table_id,
                        IF get_ok THEN ColumnIds(table_columns) ELSE {}),
          read |-> TRUE, ok |-> get_ok]
    ELSE [cache |-> cache, read |-> FALSE, ok |-> TRUE]

\* The loop of add_missing_columns over missing_columns
RECURSIVE ColumnsToAdd(_, _)
ColumnsToAdd(missing_columns, existing_columns) ==
    IF missing_columns = <<>> THEN <<>>
    ELSE LET normalized_col_name == NormalizeColumnName(Head(missing_columns),
                                                        DefaultMaxLength)
         IN  (IF normalized_col_name \notin existing_columns
              THEN <<Col(normalized_col_name, "Text")>> ELSE <<>>)
             \o ColumnsToAdd(Tail(missing_columns), existing_columns)

\* ColumnCache.add_missing_columns: the cache and the columns of the table
\* it leaves.  post_ok is whether the addition answers 200; the document
\* then holds the columns asked for.
AddMissingColumnsCached(cache, table_columns, table_id, missing_columns, get_ok, post_ok) ==
    IF missing_columns = <<>>
    THEN [cache |-> cache, columns |-> table_columns, read |-> FALSE, get_ok |-> TRUE,
          existing |-> {}, to_add |-> <<>>, posted |-> FALSE, success |-> TRUE]
    ELSE LET got == GetColumns(cache, table_columns, table_id, FALSE, get_ok)
             existing_columns == got.cache[table_id]
             columns_to_add == ColumnsToAdd(missing_columns, existing_columns)
         IN  IF columns_to_add = <<>>
             THEN [cache |-> got.cache, columns |-> table_columns, read |-> got.read,
                   get_ok |-> got.ok, existing |-> existing_columns, to_add |-> <<>>,
                   posted |-> FALSE, success |-> TRUE]
             ELSE IF post_ok
             THEN [cache |-> Put(got.cache, table_id,
                                 existing_columns \cup ColumnIds(columns_to_add)),
                   columns |-> AddColumns(table_columns, columns_to_add),
                   read |-> got.read, get_ok |-> got.ok,
                   existing |-> existing_columns, to_add |-> columns_to_add,
                   posted |-> TRUE, success |-> TRUE]
             ELSE [cache |-> got.cache, columns |-> table_columns, read |-> got.read,
                   get_ok |-> got.ok, existing |-> existing_columns,
                   to_add |-> columns_to_add, posted |-> TRUE, success |-> FALSE]

\* The document of a form whose tables exist, and an empty cache
ColumnCacheInit ==
    /\ grist_tables = {"dossiers", "champs", "annotations"}
    /\ \E first \in {<<>>, <<Col(NormalizeColumnName(L_Nom, DefaultMaxLength), "Text")>>} :
        grist_columns = [NoColumns EXCEPT !["dossiers"] = DossierColumns,
                                          !["champs"] = BaseChampColumns \o first,
                                          !["annotations"] = BaseAnnotationColumns]
    /\ grist_rows = NoRows
    /\ platform = NULL
    /\ batch_records = NULL
    /\ columns_cache = [t \in {} |-> {}]
    /\ run = 1
    /\ gpc = "cache"
    /\ history = [handler |-> "none", table |-> "none", read_failed |-> FALSE,
                  existing |-> {}, to_add |-> {}, posted |-> FALSE, success |-> TRUE]
    /\ failures = 0
    /\ first_rows = NULL
    /\ NormIdle
    /\ FlatIdle
    /\ LaterIdle

\* A call of get_columns
CallGetColumns ==
    /\ gpc = "cache"
    /\ \E table_id \in CachedTables, force_refresh \in BOOLEAN, get_ok \in BOOLEAN :
        \E got \in {GetColumns(columns_cache, grist_columns[table_id], table_id,
                               force_refresh, get_ok)} :
            /\ failures + (IF got.read /\ ~got.ok THEN 1 ELSE 0) <= MaxFailures
            /\ failures' = failures + (IF got.read /\ ~got.ok THEN 1 ELSE 0)
            /\ columns_cache' = got.cache
            /\ history' = [handler |-> "get_columns", table |-> table_id,
                           read_failed |-> history.read_failed \/ (got.read /\ ~got.ok),
                           existing |-> {}, to_add |-> {}, posted |-> FALSE,
                           success |-> got.ok]
    /\ UNCHANGED <<flatVars, normVars, laterVars, grist_tables, grist_columns, grist_rows,
                   platform, batch_records, run, gpc, first_rows>>

\* A call of add_missing_columns
CallAddMissingColumns ==
    /\ gpc = "cache"
    /\ \E table_id \in CachedTables, missing_columns \in MissingLists,
          get_ok \in BOOLEAN, post_ok \in BOOLEAN :
        \E done \in {AddMissingColumnsCached(columns_cache, grist_columns[table_id],
                                             table_id, missing_columns, get_ok, post_ok)} :
        \E refused \in {(IF done.read /\ ~done.get_ok THEN 1 ELSE 0)
                        + (IF done.posted /\ ~done.success THEN 1 ELSE 0)} :
            /\ failures + refused <= MaxFailures
            /\ failures' = failures + refused
            /\ columns_cache' = done.cache
            /\ grist_columns' = [grist_columns EXCEPT ![table_id] = done.columns]
            /\ history' = [handler |-> "add_missing_columns", table |-> table_id,
                           read_failed |-> history.read_failed
                                           \/ (done.read /\ ~done.get_ok),
                           existing |-> done.existing,
                           to_add |-> ColumnIds(done.to_add),
                           posted |-> done.posted, success |-> done.success]
    /\ UNCHANGED <<flatVars, normVars, laterVars, grist_tables, grist_rows, platform,
                   batch_records, run, gpc, first_rows>>

ColumnCacheNext ==
    \/ CallGetColumns
    \/ CallAddMissingColumns

SpecColumnCache == ColumnCacheInit /\ [][ColumnCacheNext]_vars

(***************************************************************************)
(* Properties of the column cache (SpecColumnCache)                        *)
(***************************************************************************)

\* The cache holds, for every table it knows, the columns of the document
CacheSameAsDocument ==
    \A t \in DOMAIN columns_cache : columns_cache[t] = ColumnIds(grist_columns[t])

\* The addition extends the cached set by the columns added when it is
\* answered, and leaves it as it was when it is refused
ExtendedExactlyOnSuccess ==
    (history.handler = "add_missing_columns" /\ history.posted)
    => columns_cache[history.table] =
            IF history.success THEN history.existing \cup history.to_add
            ELSE history.existing

\* C27: with the cache as the only writer of the document, the column set
\* the cache holds for a table is the column set of the table in the
\* document, and an addition extends it exactly when it succeeds.
C27_CacheSameAsDocument ==
    /\ CacheSameAsDocument
    /\ ExtendedExactlyOnSuccess

\* The same as long as every listing of the columns was answered
CacheSameWhileListingsAnswer ==
    ~history.read_failed => C27_CacheSameAsDocument

(***************************************************************************)
(* Part M.  Two runs that reconcile the case table of the same document at *)
(* the same time: upsert_multiple_dossiers_in_grist by its calls to the    *)
(* document, each call a step.                                             *)
(***************************************************************************)

Runs == {1, 2}

MaxUpserts == 3

\* The record of a case for the case table
CaseRecord(n) ==
    (K_dossier_id :> <<"D">> \o NumText(n))
    @@ (K_number :> n)
    @@ (K_state :> <<"en_construction">>)

\* The records a run brings
RecordLists ==
    {<<CaseRecord(CaseNumber)>>,
     <<CaseRecord(CaseNumber), CaseRecord(CaseNumber + 1)>>}

IdleUpsert ==
    [pc |-> "idle", dossiers_list |-> <<>>, index_ok |-> FALSE,
     existing_records |-> EmptyDict, to_update |-> <<>>, to_create |-> <<>>,
     posted |-> {}, create_ok |-> FALSE, total_success |-> 0, total_errors |-> 0]

\* The creations of the partition, on the index an earlier read of the rows
\* would have given the run
CreationsOnFreshIndex(dossiers_list, existing_records, existing_columns, table_rows) ==
    NormalizeRecords(
        PartitionRecords(dossiers_list, GetExistingDossierNumbers(table_rows, TRUE),
                         existing_columns,
                         [to_update |-> <<>>, to_create |-> <<>>]).to_create)

\* The creations of the partition, on the index the run read
CreationsOnIndex(dossiers_list, existing_records, existing_columns, table_rows) ==
    NormalizeRecords(
        PartitionRecords(dossiers_list, existing_records, existing_columns,
                         [to_update |-> <<>>, to_create |-> <<>>]).to_create)

RaceInit ==
    /\ grist_tables = {"dossiers"}
    /\ grist_columns = [NoColumns EXCEPT !["dossiers"] = DossierColumns]
    /\ grist_rows \in {NoRows, [NoRows EXCEPT !["dossiers"] = EarlierDocument.rows["dossiers"]]}
    /\ platform = NULL
    /\ batch_records = NULL
    /\ columns_cache = NULL
    /\ run = 0
    /\ gpc = "race"
    /\ history = NULL
    /\ failures = 0
    /\ first_rows = NULL
    /\ upserts = [r \in Runs |-> IdleUpsert]
    /\ NormIdle
    /\ FlatIdle
    /\ TypeIdle
    /\ FilterIdle
    /\ RunIdle
    /\ WktIdle
    /\ MergeIdle
    /\ CacheIdle

\* What no step of the two runs touches
RaceRest ==
    UNCHANGED <<normVars, flatVars, typeVars, filterVars, runVars, wktVars, mergeVars,
                cacheVars, grist_tables, grist_columns, platform, batch_records,
                columns_cache, gpc, history, first_rows>>

\* A run calls upsert_multiple_dossiers_in_grist on the case table
StartUpsert(r) ==
    /\ upserts[r].pc \in {"idle", "done"}
    /\ run < MaxUpserts
    /\ run' = run + 1
    /\ \E dossiers_list \in RecordLists :
        upserts' = [upserts EXCEPT ![r] = [IdleUpsert EXCEPT !.pc = "index",
                                                            !.dossiers_list = dossiers_list]]
    /\ UNCHANGED <<grist_rows, failures>>
    /\ RaceRest

\* existing_records = self.get_existing_dossier_numbers(table_id)
ReadIndex(r) ==
    /\ upserts[r].pc = "index"
    /\ \E ok \in BOOLEAN :
        /\ failures + (IF ok THEN 0 ELSE 1) <= MaxFailures
        /\ failures' = failures + (IF ok THEN 0 ELSE 1)
        /\ upserts' = [upserts EXCEPT
                        ![r].pc = "columns",
                        ![r].index_ok = ok,
                        ![r].existing_records =
                            GetExistingDossierNumbers(grist_rows["dossiers"], ok)]
    /\ UNCHANGED <<grist_rows, run>>
    /\ RaceRest

\* The read of the columns of the table, then the partition of the records
\* and the padding of the two lists
ReadColumnsAndPartition(r) ==
    /\ upserts[r].pc = "columns"
    /\ \E ok \in BOOLEAN :
        /\ failures + (IF ok THEN 0 ELSE 1) <= MaxFailures
        /\ failures' = failures + (IF ok THEN 0 ELSE 1)
        /\ \E existing_columns \in {IF ok THEN ColumnIds(grist_columns["dossiers"]) ELSE {}} :
           \E parts \in {PartitionRecords(upserts[r].dossiers_list,
                                          upserts[r].existing_records, existing_columns,
                                          [to_update |-> <<>>, to_create |-> <<>>])} :
            upserts' = [upserts EXCEPT
                            ![r].pc = "update",
                            ![r].to_update = NormalizeRecords(parts.to_update),
                            ![r].to_create =
                                CreationsOnIndex(upserts[r].dossiers_list,
                                                 upserts[r].existing_records,
                                                 existing_columns, grist_rows["dossiers"])]
    /\ UNCHANGED <<grist_rows, run>>
    /\ RaceRest

\* "if to_update": the batch update and its record-by-record retry
UpdateRows(r) ==
    /\ upserts[r].pc = "update"
    /\ \E ok \in {o \in UpsertAnswers(Len(upserts[r].to_update)) :
                    o.index /\ o.columns /\ o.create} :
       \E done \in {WriteUpdates("dossiers", upserts[r].to_update, ok,
                        [rows |-> grist_rows["dossiers"], calls |-> <<>>,
                         total_success |-> 0, total_errors |-> 0])} :
        /\ (upserts[r].to_update = <<>>) => (ok.batch /\ \A k \in DOMAIN ok.single : ok.single[k])
        /\ (ok.batch) => (\A k \in DOMAIN ok.single : ok.single[k])
        /\ failures + FailedCalls(done.calls) <= MaxFailures
        /\ failures' = failures + FailedCalls(done.calls)
        /\ grist_rows' = [grist_rows EXCEPT !["dossiers"] = done.rows]
        /\ upserts' = [upserts EXCEPT ![r].pc = "create",
                                      ![r].total_success = done.total_success,
                                      ![r].total_errors = done.total_errors]
    /\ UNCHANGED run
    /\ RaceRest

\* "if to_create": the batch creation
CreateRows(r) ==
    /\ upserts[r].pc = "create"
    /\ \E create_ok \in BOOLEAN :
       \E done \in {WriteCreations("dossiers", upserts[r].to_create,
                        [create |-> create_ok],
                        [rows |-> grist_rows["dossiers"], calls |-> <<>>,
                         total_success |-> upserts[r].total_success,
                         total_errors |-> upserts[r].total_errors])} :
        /\ (upserts[r].to_create = <<>>) => create_ok
        /\ failures + FailedCalls(done.calls) <= MaxFailures
        /\ failures' = failures + FailedCalls(done.calls)
        /\ grist_rows' = [grist_rows EXCEPT !["dossiers"] = done.rows]
        /\ upserts' = [upserts EXCEPT
                        ![r].pc = "done",
                        ![r].create_ok = create_ok,
                        ![r].posted = {DossierNumberOf(upserts[r].to_create[k].fields) :
                                        k \in 1..Len(upserts[r].to_create)},
                        ![r].total_success = done.total_success,
                        ![r].total_errors = done.total_errors]
    /\ UNCHANGED run
    /\ RaceRest

RaceNext ==
    \/ \E r \in Runs : StartUpsert(r)
    \/ \E r \in Runs : ReadIndex(r)
    \/ \E r \in Runs : ReadColumnsAndPartition(r)
    \/ \E r \in Runs : UpdateRows(r)
    \/ \E r \in Runs : CreateRows(r)

SpecRace == RaceInit /\ [][RaceNext]_vars

(***************************************************************************)
(* Properties of two runs on one table (SpecRace)                          *)
(***************************************************************************)

RaceKeys == {CaseNumber, CaseNumber + 1}

\* The keys of the records a run brings
BroughtBy(r) ==
    {DossierNumberOf(upserts[r].dossiers_list[k]) : k \in 1..Len(upserts[r].dossiers_list)}

\* The run read the index, the key was not in it, and its creation is over
FoundAbsent(r, n) ==
    /\ upserts[r].pc = "done"
    /\ upserts[r].index_ok
    /\ n \in BroughtBy(r)
    /\ NumText(n) \notin DOMAIN upserts[r].existing_records

\* Every run that found the key absent asked for its creation, and each
\* answered creation left a row of its own
InsertedByEachRun ==
    \A n \in RaceKeys :
        /\ \A r \in Runs : FoundAbsent(r, n) => n \in upserts[r].posted
        /\ Cardinality(KeyedBy(grist_rows["dossiers"], n))
                >= Cardinality({r \in Runs : FoundAbsent(r, n) /\ upserts[r].create_ok})
        /\ \A r \in Runs :
                (FoundAbsent(r, n) /\ upserts[r].create_ok /\ upserts[r].total_errors = 0)
                    => upserts[r].total_success > 0

\* No step of a run takes a row of a key away
NoRowRemoved ==
    \A n \in RaceKeys :
        Cardinality(KeyedBy(grist_rows'["dossiers"], n))
            >= Cardinality(KeyedBy(grist_rows["dossiers"], n))

\* C22: two runs on the same table can both read the index before either
\* writes; a key absent from the index of both is inserted by both, which
\* leaves two rows for the key; both runs report success, and no later step
\* of a run removes a row.
C22_RaceInsertsTwice ==
    /\ []InsertedByEachRun
    /\ [][NoRowRemoved]_vars

\* Both runs found the key of case 42 absent, both creations were answered,
\* both runs count successes only and the table holds two rows for the key
C22_Witness ==
    /\ \A r \in Runs : FoundAbsent(r, CaseNumber) /\ upserts[r].create_ok
    /\ Cardinality(KeyedBy(grist_rows["dossiers"], CaseNumber)) = 2
    /\ \A r \in Runs : upserts[r].total_success > 0 /\ upserts[r].total_errors = 0

====
